---- MODULE Spec2Model ----
(***************************************************************************)
(* Model of the deal-memo schema validation of                              *)
(* server/src/validation/pydantic_schemas.py: the entity schemas, pydantic  *)
(* v2's construction semantics they rely on, the validation facade and the  *)
(* weighting normaliser.                                                    *)
(*                                                                          *)
(* Numbers.  Every JSON number is kept in fixed point, in steps of 1/Scale: *)
(* Num(n) is the number n/Scale.  With Scale a power of two every such      *)
(* value, and every sum and difference of a few of them, is an exact IEEE   *)
(* double, so the code's float comparisons are modelled exactly; the only   *)
(* inexact float operations of the source, the division and multiplication  *)
(* of normalize_weightings, are modelled with their rounding (see fdiv).    *)
(***************************************************************************)
EXTENDS Integers, Sequences, FiniteSets, TLC

VARIABLES
    call,              \* the last operation invoked and its argument
    ret,               \* what it returned or raised
    now,               \* the wall-clock year
    founded_year_le,   \* CompanyProfile.founded_year's upper bound, as evaluated
                       \* when the class body ran (module import)
    obj                \* a live AnalysisWeightings instance held by a caller

vars == <<call, ret, now, founded_year_le, obj>>

(***************************************************************************)
(* Bounds of the model.                                                     *)
(***************************************************************************)
Scale == 128           \* fixed-point steps per unit
MaxTicks == 2          \* how many new years the clock may see after import
ImportYear == 2025     \* the year the module is imported in

U(k) == k * Scale      \* the whole number k

(***************************************************************************)
(* Raw (JSON-like) values, and the values of validated fields.              *)
(***************************************************************************)
Null == [t |-> "null"]
Num(n) == [t |-> "num", n |-> n]
Str(s) == [t |-> "str", s |-> s]
Lst(q) == [t |-> "list", items |-> q]
Map(m) == [t |-> "map", m |-> m]
Datetime(ts) == [t |-> "datetime", ts |-> ts]
Uuid(k) == [t |-> "uuid", k |-> k]
Url(s) == [t |-> "url", s |-> s]
Bool(b) == [t |-> "bool", b |-> b]

EmptyMap == [k \in {} |-> Null]

(***************************************************************************)
(* pydantic: one entry of ValidationError.errors().  loc is the path of     *)
(* field names (list indexes as decimal strings), msg the message with its  *)
(* parameter left as a placeholder and ctx the parameter's value.           *)
(***************************************************************************)
ErrorDetails(type, msg, ctx) == [type |-> type, loc |-> <<>>, msg |-> msg, ctx |-> ctx]

\* errors reported at the enclosing field alone: the path below it is lost
Under_enclosing(name, errors) ==
    [i \in 1..Len(errors) |-> [errors[i] EXCEPT !.loc = <<name>>]]

\* errors found under field or index `name`: the path grows at the front
Under(name, errors) ==
    [i \in 1..Len(errors) |-> [errors[i] EXCEPT !.loc = <<name>> \o @]]

RECURSIVE Flatten(_)
Flatten(seqs) == IF seqs = <<>> THEN <<>> ELSE Head(seqs) \o Flatten(Tail(seqs))

\* the outcome of validating one value: the validated value and its errors
Valid(v) == [value |-> v, errors |-> <<>>]
Invalid(errors) == [value |-> Null, errors |-> errors]

(***************************************************************************)
(* pydantic: a field declaration.  Field(...) is a required field;          *)
(* ge/le/min_length/max_length hold the bound when one is declared.         *)
(***************************************************************************)
FieldInfo(name, type) ==
    [name |-> name, type |-> type, required |-> TRUE, default |-> Null,
     optional |-> FALSE, ge |-> {}, le |-> {}, min_length |-> {},
     max_length |-> {}, of |-> "", after |-> ""]

Required(name, type) == FieldInfo(name, type)
\* Optional[T] = None, or Optional[T] = Field(None, ...)
OptionalField(name, type) ==
    [FieldInfo(name, type) EXCEPT !.required = FALSE, !.optional = TRUE]
\* T = Field(default, ...)
Defaulted(name, type, default) ==
    [FieldInfo(name, type) EXCEPT !.required = FALSE, !.default = default]

Ge(f, lo) == [f EXCEPT !.ge = {lo}]
Range(f, lo, hi) == [f EXCEPT !.ge = {lo}, !.le = {hi}]
MinLen(f, lo) == [f EXCEPT !.min_length = {lo}]
MaxLen(f, hi) == [f EXCEPT !.max_length = {hi}]
Length(f, lo, hi) == [f EXCEPT !.min_length = {lo}, !.max_length = {hi}]
Of(f, cls) == [f EXCEPT !.of = cls]
After(f, validator) == [f EXCEPT !.after = validator]

(***************************************************************************)
(* The enumerations (closed value sets).                                    *)
(***************************************************************************)
FundingStage == {"pre-seed", "seed", "series-a", "series-b", "series-c", "later-stage"}
RecommendationType == {"strong-buy", "buy", "hold", "pass", "strong-pass"}
RiskType == {"inconsistency", "market-size", "financial-anomaly", "competitive-risk",
             "team-risk", "technical-risk"}
RiskSeverity == {"HIGH", "MEDIUM", "LOW"}
RiskFlag_impact == {"low", "medium", "high", "critical"}
RiskFlag_likelihood == {"low", "medium", "high"}
RiskFlag_category == {"financial", "market", "team", "product", "competitive", "operational"}

Members(enum) ==
    CASE enum = "FundingStage" -> FundingStage
      [] enum = "RecommendationType" -> RecommendationType
      [] enum = "RiskType" -> RiskType
      [] enum = "RiskSeverity" -> RiskSeverity
      [] enum = "impact" -> RiskFlag_impact
      [] enum = "likelihood" -> RiskFlag_likelihood
      [] enum = "category" -> RiskFlag_category

(***************************************************************************)
(* The entity schemas: each class's fields in declaration order.            *)
(***************************************************************************)
BaseEntity_fields ==
    << Required("id", "uuid"),
       Required("created_at", "datetime"),
       Required("updated_at", "datetime") >>

TeamMember_fields ==
    << Length(Required("name", "str"), 1, 100),
       Length(Required("role", "str"), 1, 100),
       OptionalField("background", "str"),
       OptionalField("linkedin_url", "url"),
       Range(OptionalField("years_experience", "int"), U(0), U(50)),
       OptionalField("education", "str"),
       OptionalField("previous_companies", "list[str]"),
       OptionalField("expertise", "list[str]"),
       OptionalField("is_founder", "bool") >>

SocialLinks_fields ==
    << OptionalField("linkedin", "url"),
       OptionalField("twitter", "url"),
       OptionalField("crunchbase", "url") >>

\* founded_year's le is the value datetime.now().year had when the class body ran
CompanyProfile_fields(year_le) ==
    BaseEntity_fields \o
    << Length(Required("name", "str"), 1, 200),
       Length(Required("one_liner", "str"), 10, 500),
       Length(Required("sector", "str"), 1, 100),
       Of(Required("stage", "enum"), "FundingStage"),
       Range(Required("founded_year", "int"), U(1900), year_le),
       Length(Required("location", "str"), 1, 200),
       OptionalField("website", "url"),
       MaxLen(OptionalField("description", "str"), 2000),
       OptionalField("logo_url", "url"),
       Of(OptionalField("social_links", "model"), "SocialLinks") >>

RevenueMetrics_fields ==
    << Ge(OptionalField("arr", "float"), U(0)),
       Ge(OptionalField("mrr", "float"), U(0)),
       Range(OptionalField("growth_rate", "float"), U(-100), U(10000)),
       After(OptionalField("projected_arr", "list[float]"), "validate_projected_arr"),
       Ge(OptionalField("revenue_run_rate", "float"), U(0)),
       Range(OptionalField("gross_margin", "float"), U(0), U(100)),
       Range(OptionalField("net_revenue_retention", "float"), U(0), U(500)) >>

TractionMetrics_fields ==
    << Ge(OptionalField("customers", "int"), U(0)),
       Range(OptionalField("customer_growth_rate", "float"), U(-100), U(10000)),
       Range(OptionalField("churn_rate", "float"), U(0), U(100)),
       Range(OptionalField("nps", "float"), U(-100), U(100)),
       Ge(OptionalField("active_users", "int"), U(0)),
       Range(OptionalField("conversion_rate", "float"), U(0), U(100)),
       Ge(OptionalField("ltv", "float"), U(0)),
       Ge(OptionalField("cac", "float"), U(0)),
       Ge(OptionalField("ltv_cac_ratio", "float"), U(0)) >>

TeamMetrics_fields ==
    << Range(Required("size", "int"), U(1), U(10000)),
       Range(Required("founders_count", "int"), U(1), U(20)),
       Of(Required("key_hires", "list[model]"), "TeamMember"),
       Ge(OptionalField("engineering_team_size", "int"), U(0)),
       Ge(OptionalField("sales_team_size", "int"), U(0)),
       Ge(OptionalField("burn_rate", "float"), U(0)),
       Ge(OptionalField("runway", "float"), U(0)) >>

FundingMetrics_fields ==
    << Ge(OptionalField("total_raised", "float"), U(0)),
       Ge(OptionalField("last_round_size", "float"), U(0)),
       OptionalField("last_round_date", "datetime"),
       Ge(OptionalField("current_ask", "float"), U(0)),
       Ge(OptionalField("valuation", "float"), U(0)),
       Ge(OptionalField("pre_money_valuation", "float"), U(0)),
       Ge(OptionalField("post_money_valuation", "float"), U(0)),
       Of(OptionalField("stage", "enum"), "FundingStage"),
       OptionalField("lead_investor", "str"),
       OptionalField("use_of_funds", "list[str]") >>

InvestmentMetrics_fields ==
    BaseEntity_fields \o
    << Of(Required("revenue", "model"), "RevenueMetrics"),
       Of(Required("traction", "model"), "TractionMetrics"),
       Of(Required("team", "model"), "TeamMetrics"),
       Of(Required("funding", "model"), "FundingMetrics"),
       Required("extraction_timestamp", "datetime"),
       Required("source_documents", "list[str]"),
       Range(Required("confidence", "float"), U(0), U(1)) >>

RiskFlag_fields ==
    BaseEntity_fields \o
    << Of(Required("type", "enum"), "RiskType"),
       Of(Required("severity", "enum"), "RiskSeverity"),
       Length(Required("title", "str"), 1, 200),
       Length(Required("description", "str"), 10, 1000),
       Required("affected_metrics", "list[str]"),
       Length(Required("suggested_mitigation", "str"), 10, 1000),
       Required("source_documents", "list[str]"),
       Range(Required("confidence", "float"), U(0), U(1)),
       Of(Required("impact", "literal"), "impact"),
       Of(Required("likelihood", "literal"), "likelihood"),
       Of(Required("category", "literal"), "category"),
       Required("detected_at", "datetime"),
       Required("evidence", "list[str]"),
       OptionalField("related_flags", "list[str]") >>

MetricDistribution_fields ==
    << Required("min", "float"),
       Required("max", "float"),
       Required("median", "float"),
       Required("p25", "float"),
       Required("p75", "float"),
       Required("p90", "float"),
       Required("mean", "float"),
       Required("std_dev", "float"),
       Ge(Required("sample_size", "int"), U(1)) >>

TimeRange_fields ==
    << Required("start_date", "datetime"),
       Required("end_date", "datetime") >>

BenchmarkData_fields ==
    BaseEntity_fields \o
    << Length(Required("sector", "str"), 1, 100),
       MaxLen(OptionalField("sub_sector", "str"), 100),
       Of(OptionalField("stage", "enum"), "FundingStage"),
       MaxLen(OptionalField("geography", "str"), 100),
       Ge(Required("sample_size", "int"), U(1)),
       Of(Required("metrics", "dict[model]"), "MetricDistribution"),
       Required("last_updated", "datetime"),
       Length(Required("data_source", "str"), 1, 200),
       Length(Required("methodology", "str"), 10, 1000),
       Range(Required("confidence", "float"), U(0), U(1)),
       Of(Required("time_range", "model"), "TimeRange") >>

BenchmarkComparison_fields ==
    << Length(Required("metric", "str"), 1, 100),
       Required("company_value", "float"),
       Required("sector_median", "float"),
       Range(Required("percentile", "float"), U(0), U(100)),
       Length(Required("interpretation", "str"), 10, 500),
       Length(Required("context", "str"), 10, 500),
       MaxLen(OptionalField("recommendation", "str"), 500) >>

AnalysisWeightings_fields ==
    << Range(Defaulted("market_opportunity", "float", Num(U(25))), U(0), U(100)),
       Range(Defaulted("team", "float", Num(U(25))), U(0), U(100)),
       Range(Defaulted("traction", "float", Num(U(20))), U(0), U(100)),
       Range(Defaulted("product", "float", Num(U(15))), U(0), U(100)),
       Range(Defaulted("competitive_position", "float", Num(U(15))), U(0), U(100)) >>

DealMemoSummary_fields ==
    << Length(Required("company_name", "str"), 1, 200),
       Length(Required("one_liner", "str"), 10, 500),
       Length(Required("sector", "str"), 1, 100),
       Of(Required("stage", "enum"), "FundingStage"),
       Range(Required("signal_score", "float"), U(0), U(100)),
       Of(Required("recommendation", "enum"), "RecommendationType"),
       Range(Required("confidence_level", "float"), U(0), U(1)),
       Required("last_updated", "datetime") >>

RevenueProjection_fields ==
    << Ge(Required("year1", "float"), U(0)),
       Ge(Required("year3", "float"), U(0)),
       Ge(Required("year5", "float"), U(0)) >>

GrowthPotential_fields ==
    << Length(Required("upside_summary", "str"), 50, 2000),
       Length(Required("growth_timeline", "str"), 20, 1000),
       After(MinLen(Required("key_drivers", "list[str]"), 1), "validate_key_drivers"),
       After(MinLen(Required("scalability_factors", "list[str]"), 1),
             "validate_scalability_factors"),
       Length(Required("market_expansion_opportunity", "str"), 20, 1000),
       Of(Required("revenue_projection", "model"), "RevenueProjection") >>

RiskAssessment_fields ==
    << Range(Required("overall_risk_score", "float"), U(0), U(100)),
       Of(Required("high_priority_risks", "list[model]"), "RiskFlag"),
       Of(Required("medium_priority_risks", "list[model]"), "RiskFlag"),
       Of(Required("low_priority_risks", "list[model]"), "RiskFlag"),
       After(MinLen(Required("risk_mitigation_plan", "list[str]"), 1),
             "validate_mitigation_plan") >>

InvestmentRecommendation_fields ==
    << Length(Required("narrative", "str"), 100, 3000),
       Length(Required("investment_thesis", "str"), 50, 2000),
       Length(Required("ideal_check_size", "str"), 5, 100),
       Length(Required("ideal_valuation_cap", "str"), 5, 100),
       After(MinLen(Required("suggested_terms", "list[str]"), 1), "validate_suggested_terms"),
       After(MinLen(Required("key_diligence_questions", "list[str]"), 1),
             "validate_diligence_questions"),
       After(MinLen(Required("follow_up_actions", "list[str]"), 1),
             "validate_follow_up_actions"),
       Length(Required("timeline_to_decision", "str"), 5, 100) >>

DealMemoMetadata_fields ==
    << Length(Required("generated_by", "str"), 1, 100),
       Length(Required("analysis_version", "str"), 1, 20),
       Required("source_documents", "list[str]"),
       Ge(Required("processing_time", "float"), U(0)),
       Range(Required("data_quality", "float"), U(0), U(1)) >>

AegisDealMemo_fields ==
    << Of(Required("summary", "model"), "DealMemoSummary"),
       Of(Required("key_benchmarks", "list[model]"), "BenchmarkComparison"),
       Of(Required("growth_potential", "model"), "GrowthPotential"),
       Of(Required("risk_assessment", "model"), "RiskAssessment"),
       Of(Required("investment_recommendation", "model"), "InvestmentRecommendation"),
       Of(Required("analysis_weightings", "model"), "AnalysisWeightings"),
       Of(Required("metadata", "model"), "DealMemoMetadata") >>

DealMemo_fields ==
    BaseEntity_fields \o
    << Of(Required("aegis_deal_memo", "model"), "AegisDealMemo") >>

\* the class registry: the fields of class cls under the class-definition-time
\* bound year_le of CompanyProfile.founded_year
Fields(cls, year_le) ==
    CASE cls = "TeamMember" -> TeamMember_fields
      [] cls = "SocialLinks" -> SocialLinks_fields
      [] cls = "CompanyProfile" -> CompanyProfile_fields(year_le)
      [] cls = "RevenueMetrics" -> RevenueMetrics_fields
      [] cls = "TractionMetrics" -> TractionMetrics_fields
      [] cls = "TeamMetrics" -> TeamMetrics_fields
      [] cls = "FundingMetrics" -> FundingMetrics_fields
      [] cls = "InvestmentMetrics" -> InvestmentMetrics_fields
      [] cls = "RiskFlag" -> RiskFlag_fields
      [] cls = "MetricDistribution" -> MetricDistribution_fields
      [] cls = "TimeRange" -> TimeRange_fields
      [] cls = "BenchmarkData" -> BenchmarkData_fields
      [] cls = "BenchmarkComparison" -> BenchmarkComparison_fields
      [] cls = "AnalysisWeightings" -> AnalysisWeightings_fields
      [] cls = "DealMemoSummary" -> DealMemoSummary_fields
      [] cls = "RevenueProjection" -> RevenueProjection_fields
      [] cls = "GrowthPotential" -> GrowthPotential_fields
      [] cls = "RiskAssessment" -> RiskAssessment_fields
      [] cls = "InvestmentRecommendation" -> InvestmentRecommendation_fields
      [] cls = "DealMemoMetadata" -> DealMemoMetadata_fields
      [] cls = "AegisDealMemo" -> AegisDealMemo_fields
      [] cls = "DealMemo" -> DealMemo_fields

(***************************************************************************)
(* The validators the classes declare.  A validator that raises ValueError  *)
(* yields the one error pydantic makes of it (type value_error, the message *)
(* after "Value error, "); one that returns yields none.                    *)
(***************************************************************************)
ValueError(msg, ctx) == <<ErrorDetails("value_error", msg, ctx)>>

\* the first item of a list that a per-item check rejects stops the loop
AnyItem(v, Bad(_)) == \E i \in 1..Len(v.items) : Bad(v.items[i])

validate_projected_arr(v) ==
    IF v # Null /\ AnyItem(v, LAMBDA value : value.n < 0)
    THEN ValueError("All projected ARR values must be non-negative", 0)
    ELSE <<>>

validate_key_drivers(v) ==
    IF AnyItem(v, LAMBDA driver : Len(driver.s) < 5 \/ Len(driver.s) > 200)
    THEN ValueError("Each key driver must be between 5 and 200 characters", 0)
    ELSE <<>>

validate_scalability_factors(v) ==
    IF AnyItem(v, LAMBDA factor : Len(factor.s) < 5 \/ Len(factor.s) > 200)
    THEN ValueError("Each scalability factor must be between 5 and 200 characters", 0)
    ELSE <<>>

\* validate_mitigation_plan returning from inside its loop: only the first item
\* is looked at
validate_mitigation_plan_first(v) ==
    IF v.items # <<>> /\ (Len(v.items[1].s) < 10 \/ Len(v.items[1].s) > 500)
    THEN ValueError("Each mitigation plan item must be between 10 and 500 characters", 0)
    ELSE <<>>

validate_mitigation_plan(v) ==
    IF AnyItem(v, LAMBDA plan : Len(plan.s) < 10 \/ Len(plan.s) > 500)
    THEN ValueError("Each mitigation plan item must be between 10 and 500 characters", 0)
    ELSE <<>>

validate_suggested_terms(v) ==
    IF AnyItem(v, LAMBDA term : Len(term.s) < 5 \/ Len(term.s) > 200)
    THEN ValueError("Each suggested term must be between 5 and 200 characters", 0)
    ELSE <<>>

validate_diligence_questions(v) ==
    IF AnyItem(v, LAMBDA question : Len(question.s) < 10 \/ Len(question.s) > 300)
    THEN ValueError("Each diligence question must be between 10 and 300 characters", 0)
    ELSE <<>>

validate_follow_up_actions(v) ==
    IF AnyItem(v, LAMBDA action : Len(action.s) < 5 \/ Len(action.s) > 200)
    THEN ValueError("Each follow-up action must be between 5 and 200 characters", 0)
    ELSE <<>>

\* @field_validator(name): the validator runs on the field's validated value
FieldValidator(name, v) ==
    CASE name = "validate_projected_arr" -> validate_projected_arr(v)
      [] name = "validate_key_drivers" -> validate_key_drivers(v)
      [] name = "validate_scalability_factors" -> validate_scalability_factors(v)
      [] name = "validate_mitigation_plan" -> validate_mitigation_plan(v)
      [] name = "validate_suggested_terms" -> validate_suggested_terms(v)
      [] name = "validate_diligence_questions" -> validate_diligence_questions(v)
      [] name = "validate_follow_up_actions" -> validate_follow_up_actions(v)
      [] OTHER -> <<>>

\* validate_distribution without its check of the median
validate_distribution_no_median(self) ==
    IF self["max"].n < self["min"].n
    THEN ValueError("max must be greater than or equal to min", 0)
    ELSE <<>>

\* self is the instance's field mapping, name -> value
validate_distribution(self) ==
    IF self["max"].n < self["min"].n
    THEN ValueError("max must be greater than or equal to min", 0)
    ELSE IF ~(self["min"].n <= self["median"].n /\ self["median"].n <= self["max"].n)
    THEN ValueError("median must be between min and max", 0)
    ELSE <<>>

\* validate_time_range asking for an end after the start, as its message says
validate_time_range_after(self) ==
    IF self["end_date"].ts <= self["start_date"].ts
    THEN ValueError("end_date must be after start_date", 0)
    ELSE <<>>

validate_time_range(self) ==
    IF self["end_date"].ts < self["start_date"].ts
    THEN ValueError("end_date must be after start_date", 0)
    ELSE <<>>

\* 0.01 is no multiple of 1/Scale, so a difference of Tolerance steps is the
\* largest that is not > 0.01
Tolerance == Scale \div 100

Abs(x) == IF x < 0 THEN -x ELSE x

(***************************************************************************)
(* Binary floating point with round-to-nearest-even, as Python's float, at  *)
(* a mantissa of Precision bits (CPython: 53).  A float is m * 2^e with     *)
(* 2^(Precision-1) <= |m| < 2^Precision, or zero.                           *)
(***************************************************************************)
Precision == 16

RECURSIVE Pow2(_)
Pow2(n) == IF n = 0 THEN 1 ELSE 2 * Pow2(n - 1)

Float(m, e) == [t |-> "float", m |-> m, e |-> e]

\* the quotient n / d (d > 0, n >= 0) rounded half to even
RoundDiv(n, d) ==
    LET q == n \div d
        r == n % d
    IN  IF 2 * r > d \/ (2 * r = d /\ q % 2 = 1) THEN q + 1 ELSE q

\* the float nearest to (n / d) * 2^e, for n > 0 and d > 0
RECURSIVE RoundToFloat(_, _, _)
RoundToFloat(n, d, e) ==
    IF n < d * Pow2(Precision - 1) THEN RoundToFloat(2 * n, d, e - 1)
    ELSE IF n >= d * Pow2(Precision) THEN RoundToFloat(n, 2 * d, e + 1)
    ELSE IF RoundDiv(n, d) = Pow2(Precision) THEN Float(Pow2(Precision - 1), e + 1)
    ELSE Float(RoundDiv(n, d), e)

Sign(x) == IF x < 0 THEN -1 ELSE 1
Negate(x, sign) == Float(sign * x.m, x.e)

\* value / total of two numbers of the fixed-point domain (total # 0)
fdiv(value, total) ==
    IF value = 0 THEN Float(0, 0)
    ELSE Negate(RoundToFloat(Abs(value), Abs(total), 0), Sign(value) * Sign(total))

\* x * k for a float x and a whole number k > 0
fmul(x, k) ==
    IF x.m = 0 THEN Float(0, 0)
    ELSE Negate(RoundToFloat(Abs(x.m) * k, 1, x.e), Sign(x.m))

\* x + y, rounded once; a term too small to reach the other's last bit is lost
fadd(x, y) ==
    IF x.m = 0 THEN y
    ELSE IF y.m = 0 THEN x
    ELSE IF x.e - y.e > Precision + 1 THEN x
    ELSE IF y.e - x.e > Precision + 1 THEN y
    ELSE IF x.e >= y.e
    THEN IF x.m * Pow2(x.e - y.e) + y.m = 0 THEN Float(0, 0)
         ELSE Negate(RoundToFloat(Abs(x.m * Pow2(x.e - y.e) + y.m), 1, y.e),
                     Sign(x.m * Pow2(x.e - y.e) + y.m))
    ELSE IF x.m + y.m * Pow2(y.e - x.e) = 0 THEN Float(0, 0)
         ELSE Negate(RoundToFloat(Abs(x.m + y.m * Pow2(y.e - x.e)), 1, x.e),
                     Sign(x.m + y.m * Pow2(y.e - x.e)))

\* x < y: mantissas are normalised, so the exponent decides before the mantissa
flt(x, y) ==
    IF x.m = 0 \/ y.m = 0 THEN x.m < y.m
    ELSE IF Sign(x.m) # Sign(y.m) THEN x.m < 0
    ELSE IF x.e # y.e THEN (x.e < y.e) = (x.m > 0)
    ELSE x.m < y.m

\* float(v) of a number of either domain
float(v) == IF v.t = "float" THEN v ELSE fdiv(v.n, U(1))

\* validate_weightings_sum with the tolerance forgotten
validate_weightings_sum_exact(self) ==
    LET total == self["market_opportunity"].n + self["team"].n + self["traction"].n
                 + self["product"].n + self["competitive_position"].n
    IN  IF total # U(100)
        THEN ValueError("Weightings must sum to 100%, got {total}%", total)
        ELSE <<>>

\* the sum of the five weights, added from left to right
float_total(self) ==
    fadd(fadd(fadd(fadd(float(self["market_opportunity"]), float(self["team"])),
                   float(self["traction"])),
              float(self["product"])),
         float(self["competitive_position"]))

\* abs(total - 100.0) > 0.01 for a float total
validate_float_sum(total) ==
    IF flt(fdiv(1, 100), Negate(fadd(total, fdiv(-100, 1)),
                                Sign(fadd(total, fdiv(-100, 1)).m)))
    THEN ValueError("Weightings must sum to 100%, got {total}%", total)
    ELSE <<>>

\* weights of the fixed-point domain are added exactly; when one of them is a
\* float the sum is the floats' sum
validate_weightings_sum(self) ==
    IF \E k \in DOMAIN self : self[k].t = "float"
    THEN validate_float_sum(float_total(self))
    ELSE LET total == self["market_opportunity"].n + self["team"].n + self["traction"].n
                      + self["product"].n + self["competitive_position"].n
         IN  IF Abs(total - U(100)) > Tolerance
             THEN ValueError("Weightings must sum to 100%, got {total}%", total)
             ELSE <<>>

\* validate_revenue_progression comparing year5 with year1
validate_revenue_progression_year1(self) ==
    IF self["year3"].n < self["year1"].n
    THEN ValueError("year3 projection should not be less than year1", 0)
    ELSE IF self["year5"].n < self["year1"].n
    THEN ValueError("year5 projection should not be less than year3", 0)
    ELSE <<>>

\* validate_revenue_progression going on after its first failing condition
validate_revenue_progression_both(self) ==
    (IF self["year3"].n < self["year1"].n
     THEN ValueError("year3 projection should not be less than year1", 0) ELSE <<>>)
    \o (IF self["year5"].n < self["year3"].n
        THEN ValueError("year5 projection should not be less than year3", 0) ELSE <<>>)

validate_revenue_progression(self) ==
    IF self["year3"].n < self["year1"].n
    THEN ValueError("year3 projection should not be less than year1", 0)
    ELSE IF self["year5"].n < self["year3"].n
    THEN ValueError("year5 projection should not be less than year3", 0)
    ELSE <<>>

\* @model_validator(mode='after') of class cls, if it declares one
ModelValidator(cls, self) ==
    CASE cls = "MetricDistribution" -> validate_distribution(self)
      [] cls = "TimeRange" -> validate_time_range(self)
      [] cls = "AnalysisWeightings" -> validate_weightings_sum(self)
      [] cls = "RevenueProjection" -> validate_revenue_progression(self)
      [] OTHER -> <<>>

(***************************************************************************)
(* pydantic v2 (lax mode): validation of one value against a field's type   *)
(* and constraints.  A scalar reports the first constraint it breaks.       *)
(***************************************************************************)
\* texts that parse: the only strings a number, UUID or URL field accepts
NumberTexts == {"25"}
NumberOf(s) == U(25)
UuidTexts == {"7d444840-9dc0-11d1-b245-5ffdce74fad2"}
UrlTexts == {"https://techstartup.com"}

\* the bounds taken as exclusive (gt and lt for ge and le)
Bounds_exclusive(f, v) ==
    IF \E lo \in f.ge : v.n <= lo
    THEN Invalid(<<ErrorDetails("greater_than_equal",
                   "Input should be greater than or equal to {ge}",
                   CHOOSE lo \in f.ge : TRUE)>>)
    ELSE IF \E hi \in f.le : v.n >= hi
    THEN Invalid(<<ErrorDetails("less_than_equal",
                   "Input should be less than or equal to {le}",
                   CHOOSE hi \in f.le : TRUE)>>)
    ELSE Valid(v)

Bounds(f, v) ==
    IF \E lo \in f.ge : v.n < lo
    THEN Invalid(<<ErrorDetails("greater_than_equal",
                   "Input should be greater than or equal to {ge}",
                   CHOOSE lo \in f.ge : TRUE)>>)
    ELSE IF \E hi \in f.le : v.n > hi
    THEN Invalid(<<ErrorDetails("less_than_equal",
                   "Input should be less than or equal to {le}",
                   CHOOSE hi \in f.le : TRUE)>>)
    ELSE Valid(v)

\* ge and le of a float value: the bound is compared as the number it is
FloatBounds(f, v) ==
    IF \E lo \in f.ge : flt(v, fdiv(lo, U(1)))
    THEN Invalid(<<ErrorDetails("greater_than_equal",
                   "Input should be greater than or equal to {ge}",
                   CHOOSE lo \in f.ge : TRUE)>>)
    ELSE IF \E hi \in f.le : flt(fdiv(hi, U(1)), v)
    THEN Invalid(<<ErrorDetails("less_than_equal",
                   "Input should be less than or equal to {le}",
                   CHOOSE hi \in f.le : TRUE)>>)
    ELSE Valid(v)

ValidateFloat(f, v) ==
    CASE v.t = "num" -> Bounds(f, v)
      [] v.t = "float" -> FloatBounds(f, v)
      [] v.t = "bool" -> Bounds(f, Num(IF v.b THEN U(1) ELSE 0))
      [] v.t = "str" ->
            IF v.s \in NumberTexts THEN Bounds(f, Num(NumberOf(v.s)))
            ELSE Invalid(<<ErrorDetails("float_parsing",
                 "Input should be a valid number, unable to parse string as a number", 0)>>)
      [] OTHER -> Invalid(<<ErrorDetails("float_type", "Input should be a valid number", 0)>>)

ValidateInt(f, v) ==
    CASE v.t = "num" ->
            IF v.n % Scale # 0
            THEN Invalid(<<ErrorDetails("int_from_float",
                 "Input should be a valid integer, got a number with a fractional part", 0)>>)
            ELSE Bounds(f, v)
      [] v.t = "bool" -> Bounds(f, Num(IF v.b THEN U(1) ELSE 0))
      [] v.t = "str" ->
            IF v.s \in NumberTexts THEN Bounds(f, Num(NumberOf(v.s)))
            ELSE Invalid(<<ErrorDetails("int_parsing",
                 "Input should be a valid integer, unable to parse string as an integer", 0)>>)
      [] OTHER -> Invalid(<<ErrorDetails("int_type", "Input should be a valid integer", 0)>>)

ValidateStr(f, v) ==
    IF v.t # "str"
    THEN Invalid(<<ErrorDetails("string_type", "Input should be a valid string", 0)>>)
    ELSE IF \E lo \in f.min_length : Len(v.s) < lo
    THEN Invalid(<<ErrorDetails("string_too_short",
                   "String should have at least {min_length} characters",
                   CHOOSE lo \in f.min_length : TRUE)>>)
    ELSE IF \E hi \in f.max_length : Len(v.s) > hi
    THEN Invalid(<<ErrorDetails("string_too_long",
                   "String should have at most {max_length} characters",
                   CHOOSE hi \in f.max_length : TRUE)>>)
    ELSE Valid(v)

ValidateBool(f, v) ==
    IF v.t = "bool" THEN Valid(v)
    ELSE IF v.t = "num" /\ v.n \in {0, U(1)} THEN Valid(Bool(v.n = U(1)))
    ELSE Invalid(<<ErrorDetails("bool_type", "Input should be a valid boolean", 0)>>)

\* an enum field that falls back to a member when it does not know the value
ValidateEnum_lenient(f, v) ==
    IF v.t = "str" /\ v.s \in Members(f.of) THEN Valid(v)
    ELSE Valid(Str(CHOOSE s \in Members(f.of) : TRUE))

\* a str-mixin Enum: the value of a member resolves to the member, whose value
\* it is; nothing else is accepted
ValidateEnum(f, v) ==
    IF v.t = "str" /\ v.s \in Members(f.of) THEN Valid(v)
    ELSE Invalid(<<ErrorDetails("enum", "Input should be {expected}", 0)>>)

ValidateLiteral(f, v) ==
    IF v.t = "str" /\ v.s \in Members(f.of) THEN Valid(v)
    ELSE Invalid(<<ErrorDetails("literal_error", "Input should be {expected}", 0)>>)

ValidateDatetime(f, v) ==
    CASE v.t = "datetime" -> Valid(v)
      [] v.t = "num" -> Valid(Datetime(v.n))
      [] v.t = "str" -> Invalid(<<ErrorDetails("datetime_from_date_parsing",
                        "Input should be a valid datetime or date, {error}", 0)>>)
      [] OTHER -> Invalid(<<ErrorDetails("datetime_type",
                        "Input should be a valid datetime", 0)>>)

ValidateUuid(f, v) ==
    CASE v.t = "uuid" -> Valid(v)
      [] v.t = "str" ->
            IF v.s \in UuidTexts THEN Valid(Uuid(v.s))
            ELSE Invalid(<<ErrorDetails("uuid_parsing",
                 "Input should be a valid UUID, {error}", 0)>>)
      [] OTHER -> Invalid(<<ErrorDetails("uuid_type", "UUID input should be a string, bytes or UUID object", 0)>>)

ValidateUrl(f, v) ==
    CASE v.t = "url" -> Valid(v)
      [] v.t = "str" ->
            IF v.s \in UrlTexts THEN Valid(Url(v.s))
            ELSE Invalid(<<ErrorDetails("url_parsing",
                 "Input should be a valid URL, {error}", 0)>>)
      [] OTHER -> Invalid(<<ErrorDetails("url_type", "URL input should be a string or URL", 0)>>)

ValidateScalar(f, type, v) ==
    CASE type = "float" -> ValidateFloat(f, v)
      [] type = "int" -> ValidateInt(f, v)
      [] type = "str" -> ValidateStr(f, v)
      [] type = "bool" -> ValidateBool(f, v)
      [] type = "enum" -> ValidateEnum(f, v)
      [] type = "literal" -> ValidateLiteral(f, v)
      [] type = "datetime" -> ValidateDatetime(f, v)
      [] type = "uuid" -> ValidateUuid(f, v)
      [] type = "url" -> ValidateUrl(f, v)

\* the item type of a container type, and an item's own (unconstrained) field
ItemType(type) ==
    CASE type = "list[str]" -> "str"
      [] type = "list[float]" -> "float"
      [] type \in {"list[model]", "dict[model]"} -> "model"
ItemField(f) == Of(FieldInfo("", ItemType(f.type)), f.of)

Instance(cls, m) == [t |-> "model", cls |-> cls, m |-> m]

(***************************************************************************)
(* pydantic v2: validation of a model (BaseModel.__init__).  Every field is *)
(* validated, in declaration order, and all their errors are collected; a   *)
(* key that is no field is ignored.  Only when no field failed is the       *)
(* instance built and the class's after-validator run on it.                *)
(***************************************************************************)
RECURSIVE ValidateModel(_, _, _)
RECURSIVE ValidateValue(_, _, _)

\* a validator's errors, if it raised, else the value it was given
Raised(raised, value) == IF raised # <<>> THEN Invalid(raised) ELSE Valid(value)

\* a model none of whose fields may be left out
ValidateField_required(f, m, year_le) ==
    IF f.name \in DOMAIN m THEN ValidateValue(f, m[f.name], year_le)
    ELSE Invalid(<<ErrorDetails("missing", "Field required", 0)>>)

\* the field's outcome: of the value given for it, or of its absence
ValidateField(f, m, year_le) ==
    IF f.name \in DOMAIN m THEN ValidateValue(f, m[f.name], year_le)
    ELSE IF f.required THEN Invalid(<<ErrorDetails("missing", "Field required", 0)>>)
    ELSE Valid(f.default)

\* the errors of the fields' outcomes r, each under its field's name
FieldErrors(fs, r) == Flatten([i \in 1..Len(fs) |-> Under(fs[i].name, r[i].errors)])
\* the instance's attributes
FieldValues(fs, r) ==
    [name \in {fs[i].name : i \in 1..Len(fs)} |->
        r[CHOOSE i \in 1..Len(fs) : fs[i].name = name].value]

AfterFields(cls, errors, self) ==
    IF errors # <<>> THEN Invalid(errors)
    ELSE Raised(ModelValidator(cls, self), Instance(cls, self))

ValidateFields(cls, fs, r) == AfterFields(cls, FieldErrors(fs, r), FieldValues(fs, r))

ValidateAll(cls, fs, m, year_le) ==
    ValidateFields(cls, fs, [i \in 1..Len(fs) |-> ValidateField(fs[i], m, year_le)])

ValidateModel(cls, m, year_le) == ValidateAll(cls, Fields(cls, year_le), m, year_le)

\* a list: its items' errors, each under its index, then the list's length
AfterItems(f, items, errors) ==
    IF errors # <<>> THEN Invalid(errors)
    ELSE IF \E lo \in f.min_length : Len(items) < lo
    THEN Invalid(<<ErrorDetails("too_short",
         "List should have at least {min_length} item after validation, not {actual_length}",
         CHOOSE lo \in f.min_length : TRUE)>>)
    ELSE Valid(Lst(items))

ValidateItems(f, r) ==
    AfterItems(f, [i \in 1..Len(r) |-> r[i].value],
               Flatten([i \in 1..Len(r) |-> Under(ToString(i - 1), r[i].errors)]))

ValidateList(f, v, year_le) ==
    IF v.t # "list"
    THEN Invalid(<<ErrorDetails("list_type", "Input should be a valid list", 0)>>)
    ELSE ValidateItems(f, [i \in 1..Len(v.items) |->
                              ValidateValue(ItemField(f), v.items[i], year_le)])

\* the keys of a dict in some order
Ordered(keys) ==
    CHOOSE q \in [1..Cardinality(keys) -> keys] :
        \A i, j \in 1..Cardinality(keys) : i # j => q[i] # q[j]

AfterEntries(r, errors) ==
    IF errors # <<>> THEN Invalid(errors)
    ELSE Valid(Map([k \in DOMAIN r |-> r[k].value]))

ValidateEntries(r, order) ==
    AfterEntries(r, Flatten([i \in 1..Len(order) |-> Under(order[i], r[order[i]].errors)]))

ValidateDict(f, v, year_le) ==
    IF v.t # "map"
    THEN Invalid(<<ErrorDetails("dict_type", "Input should be a valid dictionary", 0)>>)
    ELSE ValidateEntries([k \in DOMAIN v.m |-> ValidateValue(ItemField(f), v.m[k], year_le)],
                         Ordered(DOMAIN v.m))

\* a nested section taken as a plain dictionary: its own rules are not applied
ValidateNested_unchecked(f, v, year_le) ==
    IF v.t = "map" THEN Valid(Instance(f.of, v.m))
    ELSE Invalid(<<ErrorDetails("model_type",
         "Input should be a valid dictionary or instance of {class_name}", 0)>>)

ValidateNested(f, v, year_le) ==
    IF v.t = "map" THEN ValidateModel(f.of, v.m, year_le)
    ELSE IF v.t = "model" /\ v.cls = f.of THEN Valid(v)
    ELSE Invalid(<<ErrorDetails("model_type",
         "Input should be a valid dictionary or instance of {class_name}", 0)>>)

ValidateType(f, v, year_le) ==
    CASE f.type \in {"list[str]", "list[float]", "list[model]"} -> ValidateList(f, v, year_le)
      [] f.type = "dict[model]" -> ValidateDict(f, v, year_le)
      [] f.type = "model" -> ValidateNested(f, v, year_le)
      [] OTHER -> ValidateScalar(f, f.type, v)

\* the field's own validator runs on a value that passed the type's validation
AfterType(f, inner) ==
    IF inner.errors # <<>> THEN inner
    ELSE Raised(FieldValidator(f.after, inner.value), inner.value)

ValidateValue(f, v, year_le) ==
    IF f.optional /\ v = Null THEN Valid(Null)
    ELSE AfterType(f, ValidateType(f, v, year_le))

(***************************************************************************)
(* Python: how a call ends, and the exceptions of the model.                *)
(***************************************************************************)
Return(v) == [kind |-> "return", value |-> v]
Raise(e) == [kind |-> "raise", exc |-> e]

\* pydantic_core.ValidationError: it carries errors(); str(e) is a count line
\* followed by every error's message
ValidationError(title, errors) ==
    [cls |-> "ValidationError", errors |-> errors,
     args |-> <<ToString(Len(errors)) \o " validation error(s) for " \o title>>
              \o [i \in 1..Len(errors) |-> errors[i].msg]]
TypeError(msg) == [cls |-> "TypeError", errors |-> <<>>, args |-> <<msg>>]
PyValueError(msg) == [cls |-> "ValueError", errors |-> <<>>, args |-> msg]

\* str(e), a text kept as the sequence of its parts
str(e) == e.args
\* hasattr(e, 'errors')
hasattr_errors(e) == e.cls = "ValidationError"

\* model_class(**data): ** needs a mapping; then BaseModel.__init__ validates
Constructed(model_class, r) ==
    IF r.errors = <<>> THEN Return(r.value)
    ELSE Raise(ValidationError(model_class, r.errors))

Construct(model_class, data, year_le) ==
    IF data.t # "map"
    THEN Raise(TypeError("argument after ** must be a mapping"))
    ELSE Constructed(model_class, ValidateModel(model_class, data.m, year_le))

(***************************************************************************)
(* The validation facade.                                                   *)
(***************************************************************************)
\* the facade without its except clause: the exception propagates as it is
Reraise_uncaught(prefix, r) == r

\* try: return <r>; except Exception as e: raise ValueError(f"{prefix}{str(e)}")
Reraise(prefix, r) ==
    IF r.kind = "return" THEN r
    ELSE Raise(PyValueError(<<prefix>> \o str(r.exc)))

validate_deal_memo(data, year_le) ==
    Reraise("Deal memo validation failed: ", Construct("DealMemo", data, year_le))

validate_company_profile(data, year_le) ==
    Reraise("Company profile validation failed: ", Construct("CompanyProfile", data, year_le))

validate_investment_metrics(data, year_le) ==
    Reraise("Investment metrics validation failed: ",
            Construct("InvestmentMetrics", data, year_le))

\* get_validation_errors catching pydantic's ValidationError only
Diagnose_unguarded(r) ==
    IF r.kind = "return" THEN Return(<<>>)
    ELSE IF hasattr_errors(r.exc) THEN Return(r.exc.errors)
    ELSE r

\* get_validation_errors with nothing to say of an exception without errors()
Diagnose_silent(r) ==
    IF r.kind = "raise" /\ hasattr_errors(r.exc) THEN Return(r.exc.errors)
    ELSE Return(<<>>)

\* try: <r>; return []; except Exception as e: ...
Diagnose(r) ==
    IF r.kind = "return" THEN Return(<<>>)
    ELSE IF hasattr_errors(r.exc) THEN Return(r.exc.errors)
    ELSE Return(<<[msg |-> str(r.exc), type |-> "unknown_error"]>>)

get_validation_errors(model_class, data, year_le) ==
    Diagnose(Construct(model_class, data, year_le))

(***************************************************************************)
(* The weighting normaliser.                                                *)
(***************************************************************************)
\* sum(weightings.values()): exact on the fixed-point domain
RECURSIVE sum(_)
sum(weightings) ==
    IF DOMAIN weightings = {} THEN 0
    ELSE LET key == CHOOSE k \in DOMAIN weightings : TRUE
         IN  weightings[key].n + sum([k \in DOMAIN weightings \ {key} |-> weightings[k]])

\* the normaliser without its multiplication: the values sum to 1
Normalized_fractions(weightings, total) ==
    IF total = 0
    THEN Raise(PyValueError(<<"All weightings cannot be zero">>))
    ELSE Return([key \in DOMAIN weightings |-> fdiv(weightings[key].n, total)])

\* the normaliser refusing every total that is not positive
Normalized_positive(weightings, total) ==
    IF total <= 0
    THEN Raise(PyValueError(<<"All weightings cannot be zero">>))
    ELSE Return([key \in DOMAIN weightings |-> fmul(fdiv(weightings[key].n, total), 100)])

Normalized(weightings, total) ==
    IF total = 0
    THEN Raise(PyValueError(<<"All weightings cannot be zero">>))
    ELSE Return([key \in DOMAIN weightings |-> fmul(fdiv(weightings[key].n, total), 100)])

normalize_weightings(weightings) == Normalized(weightings, sum(weightings))

(***************************************************************************)
(* The inputs the model draws.                                              *)
(***************************************************************************)
With(m, k, v) == [x \in DOMAIN m \cup {k} |-> IF x = k THEN v ELSE m[x]]
Without(m, k) == [x \in DOMAIN m \ {k} |-> m[x]]
\* every mapping from some of the keys to the values
Maps(keys, values) == UNION {[ks -> values] : ks \in SUBSET keys}

RECURSIVE Repeat(_, _)
Repeat(s, n) ==
    IF n = 0 THEN ""
    ELSE IF n % 2 = 0 THEN LET half == Repeat(s, n \div 2) IN half \o half
    ELSE s \o Repeat(s, n - 1)

\* what is no mapping at all
NotMappings == {Lst(<<>>), Null}

WeightNames == {"market_opportunity", "team", "traction", "product", "competitive_position"}

\* all five given (weights at the bounds, one step off a quarter, outside
\* [0, 100]), or some left out or of the wrong type
WeightingsInputs ==
    {Map(m) : m \in [WeightNames -> {Num(U(-50)), Num(0), Num(U(25) - 1), Num(U(25)),
                                     Num(U(25) + 1), Num(U(100)), Num(U(150))}]}
    \cup {Map(m) : m \in Maps(WeightNames, {Num(U(25)), Num(U(20)), Num(U(15)), Str("abc")})}

ProjectionInputs ==
    {Map(m) : m \in Maps({"year1", "year3", "year5"},
                         {Num(U(-2)), Num(U(-1)), Num(0), Num(1), Num(U(1)), Num(U(2)),
                          Str("abc")})}

DistributionInputs ==
    {Map([min |-> Num(lo), max |-> Num(hi), median |-> Num(mid),
          p25 |-> Num(p25), p75 |-> Num(p75), p90 |-> Num(p90),
          mean |-> Num(mean), std_dev |-> Num(dev), sample_size |-> Num(size)]) :
        lo \in {U(-1), 0, U(1)}, hi \in {U(-1), 0, U(1)}, mid \in {U(-1), 0, U(1)},
        p25 \in {U(-5), U(1)}, p75 \in {0, U(5)}, p90 \in {U(-5), U(5)},
        mean \in {0, U(9)}, dev \in {U(-1), U(1)}, size \in {0, U(1), U(100)}}

TheId == Str("7d444840-9dc0-11d1-b245-5ffdce74fad2")

ValidDistribution ==
    Map([min |-> Num(U(1)), max |-> Num(U(50)), median |-> Num(U(2)), p25 |-> Num(U(1)),
         p75 |-> Num(U(5)), p90 |-> Num(U(15)), mean |-> Num(U(3)), std_dev |-> Num(U(8)),
         sample_size |-> Num(U(100))])
SomeDistributions ==
    {ValidDistribution,
     Map(With(ValidDistribution.m, "max", Num(0))),
     Map(With(ValidDistribution.m, "median", Num(U(60)))),
     Map(With(ValidDistribution.m, "sample_size", Num(0))),
     Map(With(ValidDistribution.m, "p25", Num(U(-700))))}

ValidBenchmarkData ==
    [id |-> TheId, created_at |-> Datetime(1), updated_at |-> Datetime(1),
     sector |-> Str("Enterprise Software"), sample_size |-> Num(U(100)),
     metrics |-> Map([arr |-> ValidDistribution]), last_updated |-> Datetime(1),
     data_source |-> Str("Industry Research Database"),
     methodology |-> Str("Survey of 100 enterprise software companies in Series A-C stages"),
     confidence |-> Num(Scale \div 2),
     time_range |-> Map([start_date |-> Datetime(1), end_date |-> Datetime(2)])]

BenchmarkInputs ==
    {Map([ValidBenchmarkData EXCEPT !.metrics = Map(metrics), !.sample_size = Num(size),
                                    !.confidence = Num(confidence),
                                    !.time_range = Map([start_date |-> Datetime(2),
                                                        end_date |-> Datetime(end)])]) :
        metrics \in Maps({"arr", "mrr"}, SomeDistributions), size \in {0, U(100)},
        confidence \in {Scale \div 2, U(1) + 1}, end \in {1, 2, 3}}

ValidCompanyProfile ==
    [id |-> TheId, created_at |-> Datetime(1), updated_at |-> Datetime(1),
     name |-> Str("TechStartup Inc"),
     one_liner |-> Str("Revolutionary AI platform for enterprise automation"),
     sector |-> Str("Enterprise Software"), stage |-> Str("series-a"),
     founded_year |-> Num(U(2020)), location |-> Str("San Francisco, CA"),
     website |-> Str("https://techstartup.com"),
     description |-> Str("A comprehensive AI platform that helps enterprises automate.")]

\* the years a profile may claim: around 1900 and around the years of the run
FoundedYears ==
    {Num(U(1899)), Num(U(1900)), Num(U(2020)), Num(U(2020) + 1), Str("abc")}
    \cup {Num(U(y)) : y \in ImportYear - 1 .. ImportYear + MaxTicks + 1}

ProfileInputs ==
    {Map([ValidCompanyProfile EXCEPT !.name = name, !.founded_year = year,
                                     !.stage = stage, !.website = website]) :
        name \in {Str("TechStartup Inc"), Str(""), Str(Repeat("x", 201)), Num(U(5))},
        year \in FoundedYears, stage \in {Str("series-a"), Str("series-z")},
        website \in {Str("https://techstartup.com"), Str("not-a-url"), Null}}
    \cup {Map(Without(ValidCompanyProfile, k)) : k \in DOMAIN ValidCompanyProfile}
    \cup NotMappings

ValidTeamMember ==
    [name |-> Str("John Doe"), role |-> Str("CTO"),
     background |-> Str("Former Google engineer"), years_experience |-> Num(U(10)),
     is_founder |-> Bool(TRUE)]

ValidInvestmentMetrics ==
    [id |-> TheId, created_at |-> Datetime(1), updated_at |-> Datetime(1),
     revenue |-> Map([arr |-> Num(U(1000000)), mrr |-> Num(U(83333)),
                      growth_rate |-> Num(U(150)),
                      projected_arr |-> Lst(<<Num(U(1000000)), Num(U(2000000)),
                                              Num(U(4000000))>>)]),
     traction |-> Map([customers |-> Num(U(50)), customer_growth_rate |-> Num(U(20)),
                       churn_rate |-> Num(U(5)), nps |-> Num(U(70))]),
     team |-> Map([size |-> Num(U(25)), founders_count |-> Num(U(2)),
                   key_hires |-> Lst(<<Map(ValidTeamMember)>>)]),
     funding |-> Map([total_raised |-> Num(U(5000000)), last_round_size |-> Num(U(3000000)),
                      last_round_date |-> Datetime(1), current_ask |-> Num(U(10000000)),
                      valuation |-> Num(U(10000000))]),
     extraction_timestamp |-> Datetime(1),
     source_documents |-> Lst(<<Str("doc1.pdf"), Str("doc2.docx")>>),
     confidence |-> Num(Scale \div 2)]

MetricsInputs ==
    {Map([ValidInvestmentMetrics EXCEPT
            !.revenue = Map(With(With(@.m, "arr", arr), "projected_arr", projected)),
            !.team = Map(With(With(@.m, "size", size), "key_hires", Lst(hires))),
            !.confidence = confidence]) :
        arr \in {Num(U(1000000)), Num(U(-1000)), Null},
        projected \in {Lst(<<Num(U(1)), Num(U(2))>>), Lst(<<Num(U(1)), Num(U(-5)), Num(U(2))>>),
                       Null},
        size \in {Num(U(25)), Num(0)},
        hires \in {<<>>, <<Map(ValidTeamMember)>>,
                   <<Map(ValidTeamMember), Map(With(ValidTeamMember, "name", Str("")))>>,
                   <<Map(With(ValidTeamMember, "years_experience", Num(U(51))))>>},
        confidence \in {Num(Scale \div 2), Num(U(1) + 1), Str("abc")}}
    \cup {Map(Without(ValidInvestmentMetrics, k)) : k \in DOMAIN ValidInvestmentMetrics}
    \cup NotMappings

ValidWeightings ==
    [market_opportunity |-> Num(U(25)), team |-> Num(U(25)), traction |-> Num(U(20)),
     product |-> Num(U(15)), competitive_position |-> Num(U(15))]

ValidSummary ==
    [company_name |-> Str("TechStartup Inc"),
     one_liner |-> Str("Revolutionary AI platform for enterprise automation"),
     sector |-> Str("Enterprise Software"), stage |-> Str("series-a"),
     signal_score |-> Num(U(85)), recommendation |-> Str("buy"),
     confidence_level |-> Num(Scale \div 2), last_updated |-> Datetime(1)]

ValidBenchmarkComparison ==
    [metric |-> Str("ARR"), company_value |-> Num(U(1000000)),
     sector_median |-> Num(U(2000000)), percentile |-> Num(U(40)),
     interpretation |-> Str("Below median but showing strong growth trajectory"),
     context |-> Str("Company is earlier stage than typical Series A"),
     recommendation |-> Str("Monitor growth rate closely")]

ValidProjection == [year1 |-> Num(U(2)), year3 |-> Num(U(10)), year5 |-> Num(U(50))]

ValidGrowthPotential ==
    [upside_summary |-> Str("Strong potential for 10x growth over 5 years driven by market expansion and product development."),
     growth_timeline |-> Str("Expect 3x growth in next 18 months with Series B funding"),
     key_drivers |-> Lst(<<Str("Market expansion"), Str("Product development"),
                           Str("Team scaling")>>),
     scalability_factors |-> Lst(<<Str("Cloud-native architecture"), Str("API-first design")>>),
     market_expansion_opportunity |-> Str("Large addressable market with low penetration"),
     revenue_projection |-> Map(ValidProjection)]

ValidRiskAssessment ==
    [overall_risk_score |-> Num(U(35)), high_priority_risks |-> Lst(<<>>),
     medium_priority_risks |-> Lst(<<>>), low_priority_risks |-> Lst(<<>>),
     risk_mitigation_plan |-> Lst(<<Str("Regular customer feedback collection"),
                                    Str("Competitive monitoring")>>)]

ValidRecommendation ==
    [narrative |-> Str("TechStartup Inc represents a compelling investment opportunity in the rapidly growing enterprise automation market. The company has demonstrated strong product-market fit."),
     investment_thesis |-> Str("Enterprise automation is a massive market opportunity with TechStartup positioned to capture significant market share."),
     ideal_check_size |-> Str("$2-5M"), ideal_valuation_cap |-> Str("$25M cap"),
     suggested_terms |-> Lst(<<Str("Board seat"), Str("Pro rata rights"),
                               Str("Anti-dilution protection")>>),
     key_diligence_questions |-> Lst(<<Str("What is the customer acquisition cost trend?"),
                                       Str("How defensible is the technology moat?")>>),
     follow_up_actions |-> Lst(<<Str("Reference calls with customers"),
                                 Str("Technical deep dive")>>),
     timeline_to_decision |-> Str("2-3 weeks")]

ValidMetadata ==
    [generated_by |-> Str("Aegis AI v1.0"), analysis_version |-> Str("1.0.0"),
     source_documents |-> Lst(<<Str("pitch_deck.pdf"), Str("transcript.txt")>>),
     processing_time |-> Num(U(45)), data_quality |-> Num(Scale \div 2)]

ValidAegisDealMemo ==
    [summary |-> Map(ValidSummary),
     key_benchmarks |-> Lst(<<Map(ValidBenchmarkComparison)>>),
     growth_potential |-> Map(ValidGrowthPotential),
     risk_assessment |-> Map(ValidRiskAssessment),
     investment_recommendation |-> Map(ValidRecommendation),
     analysis_weightings |-> Map(ValidWeightings),
     metadata |-> Map(ValidMetadata)]

ValidDealMemo ==
    [id |-> TheId, created_at |-> Datetime(1), updated_at |-> Datetime(1),
     aegis_deal_memo |-> Map(ValidAegisDealMemo)]

\* the valid memo with some of its nested values changed
MemoInputs ==
    {Map([ValidDealMemo EXCEPT !.aegis_deal_memo = Map([ValidAegisDealMemo EXCEPT
            !.summary = Map(With(ValidSummary, "signal_score", score)),
            !.growth_potential =
                Map(With(ValidGrowthPotential, "revenue_projection",
                         Map(With(ValidProjection, "year3", year3)))),
            !.analysis_weightings = Map(With(ValidWeightings, "market_opportunity", weight))])]) :
        score \in {Num(U(85)), Num(U(150)), Str("abc")},
        year3 \in {Num(U(10)), Num(U(1)), Num(U(60))},
        weight \in {Num(U(25)), Num(U(50)), Num(U(-25))}}
    \cup {Map(Without(ValidDealMemo, k)) : k \in DOMAIN ValidDealMemo}
    \cup {Map(With(ValidDealMemo, "aegis_deal_memo", Map(Without(ValidAegisDealMemo, k)))) :
            k \in DOMAIN ValidAegisDealMemo}
    \cup NotMappings

\* mappings over some of the five names, of whole weights of either sign
NormalizeInputs ==
    Maps(WeightNames, {Num(U(-2)), Num(U(-1)), Num(0), Num(U(1)), Num(U(2)), Num(U(3))})

\* start and end given, left out or of the wrong type
TimeRangeInputs ==
    {Map(m) : m \in Maps({"start_date", "end_date"},
                         {Datetime(1), Datetime(2), Datetime(3), Str("abc")})}

\* the classes the diagnostic entry point is asked about, with their inputs
Inputs(cls) ==
    CASE cls = "AnalysisWeightings" -> WeightingsInputs \cup NotMappings
      [] cls = "RevenueProjection" -> ProjectionInputs \cup NotMappings
      [] cls = "MetricDistribution" -> DistributionInputs
      [] cls = "TimeRange" -> TimeRangeInputs \cup NotMappings
      [] cls = "BenchmarkData" -> BenchmarkInputs
      [] cls = "CompanyProfile" -> ProfileInputs
      [] cls = "InvestmentMetrics" -> MetricsInputs
      [] cls = "DealMemo" -> MemoInputs
(***************************************************************************)
(* The operations.  A client makes one call: call holds the operation, its  *)
(* argument and, once it has run, the wall-clock year it ran in; ret holds  *)
(* how it ended (Pending until it has run).                                 *)
(***************************************************************************)
Pending == [kind |-> "pending"]
Call(op, cls, arg) == [op |-> op, cls |-> cls, arg |-> arg, year |-> 0]

\* the calls a client may make
Invokes(c) ==
    \/ \E cls \in {"AnalysisWeightings", "RevenueProjection", "MetricDistribution",
                   "TimeRange", "BenchmarkData"} :
          \E data \in Inputs(cls) : c = Call("construct", cls, data)
    \/ \E data \in MemoInputs : c = Call("validate_deal_memo", "DealMemo", data)
    \/ \E data \in ProfileInputs : c = Call("validate_company_profile", "CompanyProfile", data)
    \/ \E data \in MetricsInputs :
          c = Call("validate_investment_metrics", "InvestmentMetrics", data)
    \/ \E cls \in {"AnalysisWeightings", "RevenueProjection", "MetricDistribution",
                   "TimeRange", "BenchmarkData", "CompanyProfile", "InvestmentMetrics",
                   "DealMemo"} :
          \E data \in Inputs(cls) : c = Call("get_validation_errors", cls, data)
    \/ \E weightings \in NormalizeInputs : c = Call("normalize_weightings", "", Map(weightings))
    \/ \E weightings \in NormalizeInputs :
          c = Call("normalized", "AnalysisWeightings", Map(weightings))

Init ==
    /\ Invokes(call)
    /\ ret = Pending
    /\ now = ImportYear
    /\ founded_year_le = U(ImportYear)
    /\ obj = Null

Runs(op, cls) == call.op = op /\ call.cls = cls /\ ret = Pending
\* the call ends with result, in the current year
Ends(result) ==
    /\ ret' = result
    /\ call' = [call EXCEPT !.year = now]
    /\ UNCHANGED <<now, founded_year_le, obj>>

NewAnalysisWeightings ==
    /\ Runs("construct", "AnalysisWeightings")
    /\ Ends(Construct("AnalysisWeightings", call.arg, founded_year_le))

NewRevenueProjection ==
    /\ Runs("construct", "RevenueProjection")
    /\ Ends(Construct("RevenueProjection", call.arg, founded_year_le))

NewMetricDistribution ==
    /\ Runs("construct", "MetricDistribution")
    /\ Ends(Construct("MetricDistribution", call.arg, founded_year_le))

NewTimeRange ==
    /\ Runs("construct", "TimeRange")
    /\ Ends(Construct("TimeRange", call.arg, founded_year_le))

NewBenchmarkData ==
    /\ Runs("construct", "BenchmarkData")
    /\ Ends(Construct("BenchmarkData", call.arg, founded_year_le))

ValidateDealMemo ==
    /\ Runs("validate_deal_memo", "DealMemo")
    /\ Ends(validate_deal_memo(call.arg, founded_year_le))

ValidateCompanyProfile ==
    /\ Runs("validate_company_profile", "CompanyProfile")
    /\ Ends(validate_company_profile(call.arg, founded_year_le))

ValidateInvestmentMetrics ==
    /\ Runs("validate_investment_metrics", "InvestmentMetrics")
    /\ Ends(validate_investment_metrics(call.arg, founded_year_le))

GetValidationErrors ==
    /\ call.op = "get_validation_errors"
    /\ ret = Pending
    /\ Ends(get_validation_errors(call.cls, call.arg, founded_year_le))

NormalizeWeightings ==
    /\ Runs("normalize_weightings", "")
    /\ Ends(normalize_weightings(call.arg.m))

\* AnalysisWeightings(**r) for the mapping r that normalize_weightings returned
ConstructNormalized(r, year_le) ==
    IF r.kind = "return" THEN Construct("AnalysisWeightings", Map(r.value), year_le) ELSE r

\* AnalysisWeightings(**normalize_weightings(weightings)); obj keeps what the
\* normaliser gave
NewNormalizedWeightings ==
    /\ Runs("normalized", "AnalysisWeightings")
    /\ obj' = normalize_weightings(call.arg.m)
    /\ ret' = ConstructNormalized(normalize_weightings(call.arg.m), founded_year_le)
    /\ call' = [call EXCEPT !.year = now]
    /\ UNCHANGED <<now, founded_year_le>>

Next ==
    \/ NewAnalysisWeightings
    \/ NewRevenueProjection
    \/ NewMetricDistribution
    \/ NewTimeRange
    \/ NewBenchmarkData
    \/ ValidateDealMemo
    \/ ValidateCompanyProfile
    \/ ValidateInvestmentMetrics
    \/ GetValidationErrors
    \/ NormalizeWeightings
    \/ NewNormalizedWeightings

Spec == Init /\ [][Next]_vars

(***************************************************************************)
(* A long-running process: the clock moves on after the import, and the     *)
(* client keeps validating company profiles.                                *)
(***************************************************************************)
\* a new year begins
Tick ==
    /\ now < ImportYear + MaxTicks
    /\ now' = now + 1
    /\ UNCHANGED <<call, ret, founded_year_le, obj>>

\* the client makes its next call
NextProfileCall ==
    /\ ret # Pending
    /\ \E name \in {Str("TechStartup Inc"), Str("")}, year \in FoundedYears :
          call' = Call("validate_company_profile", "CompanyProfile",
                       Map([ValidCompanyProfile EXCEPT !.name = name,
                                                       !.founded_year = year]))
    /\ ret' = Pending
    /\ UNCHANGED <<now, founded_year_le, obj>>

InitClock ==
    /\ call = Call("import", "", Null)
    /\ ret = Return(Null)
    /\ now = ImportYear
    /\ founded_year_le = U(ImportYear)
    /\ obj = Null

NextClock == Tick \/ NextProfileCall \/ ValidateCompanyProfile

SpecClock == InitClock /\ [][NextClock]_vars

(***************************************************************************)
(* A client that keeps an AnalysisWeightings instance and assigns to its    *)
(* attributes.  The classes set no model_config: instances are not frozen   *)
(* and assignments are not validated (pydantic's defaults).                 *)
(***************************************************************************)
NextWeightingsCall ==
    /\ ret # Pending
    /\ \E data \in {Map(ValidWeightings), Map(With(ValidWeightings, "team", Num(U(50)))),
                    Map([name \in WeightNames |-> Num(U(20))]), Map(EmptyMap)} :
          call' = Call("construct", "AnalysisWeightings", data)
    /\ ret' = Pending
    /\ UNCHANGED <<now, founded_year_le, obj>>

\* weightings = AnalysisWeightings(**data): the client keeps what was returned
Keep ==
    /\ call.op = "construct" /\ call.cls = "AnalysisWeightings"
    /\ ret.kind = "return"
    /\ obj' = ret.value
    /\ UNCHANGED <<call, ret, now, founded_year_le>>

\* weightings.<name> = value: BaseModel.__setattr__ stores the value of a field
SetAttr ==
    /\ obj # Null
    /\ \E name \in WeightNames, value \in {Num(U(-50)), Num(U(25)), Str("abc")} :
          obj' = [obj EXCEPT !.m[name] = value]
    /\ UNCHANGED <<call, ret, now, founded_year_le>>

NextAssign == NextWeightingsCall \/ NewAnalysisWeightings \/ Keep \/ SetAttr

SpecAssign == InitClock /\ [][NextAssign]_vars

(***************************************************************************)
(* A client that constructs entities of the schema's classes directly,      *)
(* from raw data.                                                           *)
(***************************************************************************)
ValidRiskFlag ==
    [id |-> TheId, created_at |-> Datetime(1), updated_at |-> Datetime(1),
     type |-> Str("financial-anomaly"), severity |-> Str("HIGH"),
     title |-> Str("Unusual Churn Pattern"),
     description |-> Str("Customer churn rate has increased significantly in recent months without clear explanation."),
     affected_metrics |-> Lst(<<Str("churn_rate"), Str("customer_growth_rate")>>),
     suggested_mitigation |-> Str("Conduct customer interviews to understand churn drivers and implement retention strategies."),
     source_documents |-> Lst(<<Str("transcript.txt"), Str("metrics.pdf")>>),
     confidence |-> Num(Scale \div 2), impact |-> Str("high"), likelihood |-> Str("medium"),
     category |-> Str("financial"), detected_at |-> Datetime(1),
     evidence |-> Lst(<<Str("Churn increased from 3% to 8%"),
                        Str("No explanation in founder updates")>>)]

\* a valid document of class cls (for AnalysisWeightings: before its weights
\* are set)
ValidEntity(cls) ==
    CASE cls = "TeamMember" -> ValidTeamMember
      [] cls = "CompanyProfile" -> ValidCompanyProfile
      [] cls = "RevenueMetrics" -> ValidInvestmentMetrics.revenue.m
      [] cls = "TractionMetrics" -> ValidInvestmentMetrics.traction.m
      [] cls = "TeamMetrics" -> ValidInvestmentMetrics.team.m
      [] cls = "FundingMetrics" -> ValidInvestmentMetrics.funding.m
      [] cls = "InvestmentMetrics" -> ValidInvestmentMetrics
      [] cls = "RiskFlag" -> ValidRiskFlag
      [] cls = "BenchmarkData" -> ValidBenchmarkData
      [] cls = "BenchmarkComparison" -> ValidBenchmarkComparison
      [] cls = "AnalysisWeightings" -> [name \in WeightNames |-> Num(0)]
      [] cls = "DealMemoSummary" -> ValidSummary
      [] cls = "GrowthPotential" -> ValidGrowthPotential
      [] cls = "RiskAssessment" -> ValidRiskAssessment
      [] cls = "InvestmentRecommendation" -> ValidRecommendation
      [] cls = "DealMemoMetadata" -> ValidMetadata

\* the numeric fields declared with ge and le: Field(..., ge=lo, le=hi); step is
\* the distance to the next value of the field's type
Bounded(cls, field, lo, hi, step) ==
    [cls |-> cls, field |-> field, lo |-> lo, hi |-> hi, step |-> step]
BoundedFields ==
    {Bounded("TeamMember", "years_experience", U(0), U(50), U(1)),
     Bounded("CompanyProfile", "founded_year", U(1900), U(ImportYear), U(1)),
     Bounded("RevenueMetrics", "growth_rate", U(-100), U(10000), 1),
     Bounded("RevenueMetrics", "gross_margin", U(0), U(100), 1),
     Bounded("RevenueMetrics", "net_revenue_retention", U(0), U(500), 1),
     Bounded("TractionMetrics", "customer_growth_rate", U(-100), U(10000), 1),
     Bounded("TractionMetrics", "churn_rate", U(0), U(100), 1),
     Bounded("TractionMetrics", "nps", U(-100), U(100), 1),
     Bounded("TractionMetrics", "conversion_rate", U(0), U(100), 1),
     Bounded("TeamMetrics", "size", U(1), U(10000), U(1)),
     Bounded("TeamMetrics", "founders_count", U(1), U(20), U(1)),
     Bounded("InvestmentMetrics", "confidence", U(0), U(1), 1),
     Bounded("RiskFlag", "confidence", U(0), U(1), 1),
     Bounded("BenchmarkData", "confidence", U(0), U(1), 1),
     Bounded("BenchmarkComparison", "percentile", U(0), U(100), 1),
     Bounded("DealMemoSummary", "signal_score", U(0), U(100), 1),
     Bounded("DealMemoSummary", "confidence_level", U(0), U(1), 1),
     Bounded("RiskAssessment", "overall_risk_score", U(0), U(100), 1),
     Bounded("DealMemoMetadata", "data_quality", U(0), U(1), 1)}
    \cup {Bounded("AnalysisWeightings", name, U(0), U(100), 1) : name \in WeightNames}

\* the bounds of b and the values next to them
Around(b) == {b.lo - b.step, b.lo, b.hi, b.hi + b.step}
\* a value of [0, 100] that takes a weight of x to a sum of 100
Balance(x) == IF x < 0 THEN U(100) ELSE IF x > U(100) THEN 0 ELSE U(100) - x
\* a document valid in everything but, possibly, the value x of b's field; of
\* the weightings another one balances the sum
Boundary(b, x) ==
    IF b.cls = "AnalysisWeightings"
    THEN Map(With(With(ValidEntity(b.cls),
                       IF b.field = "team" THEN "traction" ELSE "team", Num(Balance(x))),
                  b.field, Num(x)))
    ELSE Map(With(ValidEntity(b.cls), b.field, Num(x)))
BoundaryInputs(cls) ==
    UNION {{Boundary(b, x) : x \in Around(b)} : b \in {c \in BoundedFields : c.cls = cls}}

\* the list-of-string fields whose validator bounds each item's length
ItemFields ==
    {[cls |-> "GrowthPotential", field |-> "key_drivers", lo |-> 5, hi |-> 200],
     [cls |-> "GrowthPotential", field |-> "scalability_factors", lo |-> 5, hi |-> 200],
     [cls |-> "RiskAssessment", field |-> "risk_mitigation_plan", lo |-> 10, hi |-> 500],
     [cls |-> "InvestmentRecommendation", field |-> "suggested_terms", lo |-> 5, hi |-> 200],
     [cls |-> "InvestmentRecommendation", field |-> "key_diligence_questions",
      lo |-> 10, hi |-> 300],
     [cls |-> "InvestmentRecommendation", field |-> "follow_up_actions", lo |-> 5, hi |-> 200]}

\* lists of up to MaxItems strings, each of a length at or next to a bound
MaxItems == 3
ItemLists(f) ==
    UNION {[1..n -> {Str(Repeat("x", len)) : len \in {f.lo - 1, f.lo, f.hi, f.hi + 1}}] :
            n \in 0..MaxItems}
ItemInputs(cls) ==
    UNION {{Map(With(ValidEntity(cls), f.field, Lst(items))) : items \in ItemLists(f)} :
            f \in {g \in ItemFields : g.cls = cls}}

\* the fields of an enumerated type (Enum classes and Literal[...])
EnumFields ==
    {[cls |-> "CompanyProfile", field |-> "stage", enum |-> "FundingStage"],
     [cls |-> "FundingMetrics", field |-> "stage", enum |-> "FundingStage"],
     [cls |-> "BenchmarkData", field |-> "stage", enum |-> "FundingStage"],
     [cls |-> "DealMemoSummary", field |-> "stage", enum |-> "FundingStage"],
     [cls |-> "DealMemoSummary", field |-> "recommendation", enum |-> "RecommendationType"],
     [cls |-> "RiskFlag", field |-> "type", enum |-> "RiskType"],
     [cls |-> "RiskFlag", field |-> "severity", enum |-> "RiskSeverity"],
     [cls |-> "RiskFlag", field |-> "impact", enum |-> "impact"],
     [cls |-> "RiskFlag", field |-> "likelihood", enum |-> "likelihood"],
     [cls |-> "RiskFlag", field |-> "category", enum |-> "category"]}

\* every member of every enumeration, so that each field also sees the members
\* of the others, and values that belong to none
EnumValues ==
    {Str(s) : s \in FundingStage \cup RecommendationType \cup RiskType \cup RiskSeverity
                    \cup RiskFlag_impact \cup RiskFlag_likelihood \cup RiskFlag_category
                    \cup {"SERIES-A", "series-z", ""}}
    \cup {Num(U(1)), Null}
EnumInputs(cls) ==
    {Map(With(ValidEntity(cls), f.field, v)) :
        f \in {g \in EnumFields : g.cls = cls}, v \in EnumValues}

\* some of the five weights, the others left to their defaults: a weight at its
\* default of 25, one and two steps above it, at a bound and below the range
SubsetInputs ==
    {Map(m) : m \in Maps(WeightNames, {Num(U(-50)), Num(U(25)), Num(U(25) + 1),
                                       Num(U(25) + 2), Num(U(100))})}
\* a valid document of class cls with one of its fields left out
MissingInputs(cls) ==
    {Map(Without(ValidEntity(cls), k)) : k \in DOMAIN ValidEntity(cls)}

\* the raw data the client has for class cls
EntityInputs(cls) ==
    BoundaryInputs(cls) \cup ItemInputs(cls) \cup EnumInputs(cls)
    \cup CASE cls = "TimeRange" -> TimeRangeInputs
           [] cls = "BenchmarkData" -> BenchmarkInputs \cup MissingInputs(cls)
           [] cls = "AnalysisWeightings" -> SubsetInputs
           [] OTHER -> MissingInputs(cls)

EntityClasses ==
    {"TimeRange", "BenchmarkData", "TeamMember", "CompanyProfile", "RevenueMetrics",
     "TractionMetrics", "TeamMetrics", "FundingMetrics", "InvestmentMetrics", "RiskFlag",
     "BenchmarkComparison", "AnalysisWeightings", "DealMemoSummary", "GrowthPotential",
     "RiskAssessment", "InvestmentRecommendation", "DealMemoMetadata"}

InitEntities ==
    /\ \E cls \in EntityClasses :
          \E data \in EntityInputs(cls) : call = Call("construct", cls, data)
    /\ ret = Pending
    /\ now = ImportYear
    /\ founded_year_le = U(ImportYear)
    /\ obj = Null

\* model_class(**data)
NewEntity ==
    /\ call.op = "construct"
    /\ ret = Pending
    /\ Ends(Construct(call.cls, call.arg, founded_year_le))

NextEntities == NewEntity

SpecEntities == InitEntities /\ [][NextEntities]_vars

(***************************************************************************)
(* Serialization.  The entities define no serializer of their own: a        *)
(* validated entity is turned back into a document with pydantic's          *)
(* model_dump(), as the repository's script does with the memo it           *)
(* validated.  In its (default) python mode every field of the model is a   *)
(* key of the document, nested models, lists and dicts are dumped in turn,  *)
(* and every other value is left as the object it is.                       *)
(***************************************************************************)
\* dict(model): the fields of the model itself, what they hold left alone
model_dump_shallow(v) == IF v.t = "model" THEN Map(v.m) ELSE v

RECURSIVE model_dump(_)
model_dump(v) ==
    CASE v.t \in {"model", "map"} -> Map([k \in DOMAIN v.m |-> model_dump(v.m[k])])
      [] v.t = "list" -> Lst([i \in 1..Len(v.items) |-> model_dump(v.items[i])])
      [] OTHER -> v

\* model_class(**data).model_dump()
Dumped(r) == IF r.kind = "return" THEN Return(model_dump(r.value)) ELSE r
\* model_class(**model_class(**data).model_dump())
Revalidated(model_class, r, year_le) ==
    IF r.kind = "return" THEN Construct(model_class, r.value, year_le) ELSE r

\* The document v of field f written out in full: every field of every model
\* in it is given (one the document omits, with the field's default) and no
\* other key; with typed, an id and a URL are the objects, not their text.
RECURSIVE Explicit(_, _, _)
ExplicitField(f, m, typed) ==
    IF f.name \in DOMAIN m THEN Explicit(f, m[f.name], typed) ELSE f.default
ExplicitFields(fs, m, typed) ==
    [name \in {fs[i].name : i \in 1..Len(fs)} |->
        ExplicitField(fs[CHOOSE i \in 1..Len(fs) : fs[i].name = name], m, typed)]
Explicit(f, v, typed) ==
    CASE f.type = "model" /\ v.t = "map" ->
            Map(ExplicitFields(Fields(f.of, U(ImportYear)), v.m, typed))
      [] f.type \in {"list[str]", "list[float]", "list[model]"} /\ v.t = "list" ->
            Lst([i \in 1..Len(v.items) |-> Explicit(ItemField(f), v.items[i], typed)])
      [] f.type = "dict[model]" /\ v.t = "map" ->
            Map([k \in DOMAIN v.m |-> Explicit(ItemField(f), v.m[k], typed)])
      [] typed /\ f.type = "uuid" /\ v.t = "str" /\ v.s \in UuidTexts -> Uuid(v.s)
      [] typed /\ f.type = "url" /\ v.t = "str" /\ v.s \in UrlTexts -> Url(v.s)
      [] OTHER -> v

\* the documents of class cls: as a client writes them, and written out in full
RawInputs(cls) == IF cls = "DealMemo" THEN MemoInputs ELSE EntityInputs(cls)
RoundTripInputs(cls) ==
    RawInputs(cls)
    \cup {Explicit(Of(FieldInfo("", "model"), cls), data, typed) :
            data \in RawInputs(cls), typed \in BOOLEAN}

InitRoundTrip ==
    /\ \E op \in {"model_dump", "revalidate"} :
          \E cls \in EntityClasses \cup {"DealMemo"} :
             \E data \in RoundTripInputs(cls) : call = Call(op, cls, data)
    /\ ret = Pending
    /\ now = ImportYear
    /\ founded_year_le = U(ImportYear)
    /\ obj = Null

Dump ==
    /\ call.op = "model_dump"
    /\ ret = Pending
    /\ Ends(Dumped(Construct(call.cls, call.arg, founded_year_le)))

Revalidate ==
    /\ call.op = "revalidate"
    /\ ret = Pending
    /\ Ends(Revalidated(call.cls, Dumped(Construct(call.cls, call.arg, founded_year_le)),
                        founded_year_le))

NextRoundTrip == Dump \/ Revalidate

SpecRoundTrip == InitRoundTrip /\ [][NextRoundTrip]_vars

(***************************************************************************)
(* The properties.                                                          *)
(***************************************************************************)
\* the call of op on cls has run
Done(op, cls) == call.op = op /\ call.cls = cls /\ ret # Pending
\* the argument is a mapping that gives a number for each of the keys
Numbers(keys) ==
    /\ call.arg.t = "map"
    /\ keys \subseteq DOMAIN call.arg.m
    /\ \A k \in keys : call.arg.m[k].t = "num"
Given(k) == call.arg.m[k].n
\* the messages of a sequence of pydantic errors
Messages(errors) == {errors[i].msg : i \in 1..Len(errors)}
\* the call raised a ValidationError with message msg among its errors
Reports(msg) ==
    ret.kind = "raise" /\ ret.exc.cls = "ValidationError" /\ msg \in Messages(ret.exc.errors)

SumMessage == "Weightings must sum to 100%, got {total}%"
Year3Message == "year3 projection should not be less than year1"
Year5Message == "year5 projection should not be less than year3"

GivenTotal ==
    Given("market_opportunity") + Given("team") + Given("traction") + Given("product")
    + Given("competitive_position")
\* |total - 100| <= 0.01, the total being total / Scale
WithinTolerance(total) == 100 * Abs(total - U(100)) <= Scale
WeightsInRange == \A k \in WeightNames : 0 <= Given(k) /\ Given(k) <= U(100)

\* C1 as stated: five weights whose sum is within 0.01 of 100 are accepted, and
\* five weights whose sum is not are refused with the sum-to-100 message.
C1_AnySum ==
    (Done("construct", "AnalysisWeightings") /\ Numbers(WeightNames)) =>
        IF WithinTolerance(GivenTotal) THEN ret.kind = "return" ELSE Reports(SumMessage)

\* C1 amended: five weights each in [0, 100] are accepted when their sum is within
\* 0.01 of 100 and refused with the sum-to-100 message when it is not; five weights
\* of which one is outside [0, 100] are refused, whatever their sum, with range
\* messages only.
C1_SumOfWeightsInRange ==
    (Done("construct", "AnalysisWeightings") /\ Numbers(WeightNames)) =>
        IF ~WeightsInRange
        THEN ret.kind = "raise" /\ ~Reports(SumMessage)
        ELSE IF WithinTolerance(GivenTotal) THEN ret.kind = "return"
        ELSE Reports(SumMessage)

\* weights in range whose sum is one step off 100 have been accepted
C1_Witness ==
    /\ Done("construct", "AnalysisWeightings") /\ Numbers(WeightNames)
    /\ WeightsInRange /\ GivenTotal = U(100) + 1
    /\ ret.kind = "return"

Progression == Given("year3") >= Given("year1") /\ Given("year5") >= Given("year3")
Years == {"year1", "year3", "year5"}

\* C2 as stated: for every triple of numbers, RevenueProjection is constructed
\* iff year3 >= year1 and year5 >= year3.
C2_AnyTriple ==
    (Done("construct", "RevenueProjection") /\ Numbers(Years)) =>
        (ret.kind = "return" <=> Progression)

\* C2 amended: for every triple of non-negative numbers, RevenueProjection is
\* constructed iff year3 >= year1 and year5 >= year3, and year5 is compared with
\* year3 only: a year5 below year3 is refused with the year5 message; a triple
\* with a negative number is refused.
C2_NonNegativeTriple ==
    (Done("construct", "RevenueProjection") /\ Numbers(Years)) =>
        IF \E k \in Years : Given(k) < 0 THEN ret.kind = "raise"
        ELSE /\ ret.kind = "return" <=> Progression
             /\ (Given("year3") >= Given("year1") /\ Given("year5") < Given("year3"))
                    => Reports(Year5Message)

\* a year5 between year1 and year3 has been refused
C2_Witness ==
    /\ Done("construct", "RevenueProjection") /\ Numbers(Years)
    /\ 0 <= Given("year1") /\ Given("year1") < Given("year5")
    /\ Given("year5") < Given("year3")
    /\ Reports(Year5Message)

\* the constraints a triple of numbers violates, each as the error that reports it
ProjectionViolations ==
    {[loc |-> <<k>>, msg |-> "Input should be greater than or equal to {ge}"] :
        k \in {y \in Years : Given(y) < 0}}
    \cup (IF Given("year3") < Given("year1")
          THEN {[loc |-> <<>>, msg |-> Year3Message]} ELSE {})
    \cup (IF Given("year5") < Given("year3")
          THEN {[loc |-> <<>>, msg |-> Year5Message]} ELSE {})

\* C3: the list get_validation_errors returns has an entry for every constraint
\* the input violates, per-field bounds and cross-field invariants alike.
C3_EveryViolationReported ==
    (Done("get_validation_errors", "RevenueProjection") /\ Numbers(Years)) =>
        \A violation \in ProjectionViolations :
            \E i \in 1..Len(ret.value) :
                ret.value[i].loc = violation.loc /\ ret.value[i].msg = violation.msg

Facades ==
    {[op |-> "validate_deal_memo", cls |-> "DealMemo",
      prefix |-> "Deal memo validation failed: "],
     [op |-> "validate_company_profile", cls |-> "CompanyProfile",
      prefix |-> "Company profile validation failed: "],
     [op |-> "validate_investment_metrics", cls |-> "InvestmentMetrics",
      prefix |-> "Investment metrics validation failed: "]}

\* the result is the entity of class cls that construction gives
ReturnsEntity(cls, underlying) ==
    /\ underlying.kind = "return"
    /\ ret = underlying
    /\ ret.value.t = "model" /\ ret.value.cls = cls
\* the result is a ValueError whose text is prefix and then the text of the
\* exception construction raised
RaisesPrefixed(prefix, underlying) ==
    /\ underlying.kind = "raise"
    /\ ret.kind = "raise" /\ ret.exc.cls = "ValueError"
    /\ Len(ret.exc.args) > 1
    /\ Head(ret.exc.args) = prefix
    /\ Tail(ret.exc.args) = str(underlying.exc)

\* C4: each throwing entry point either returns the validated entity or raises a
\* ValueError whose message is the entry point's prefix followed by the details
\* of the underlying failure, whatever that failure is; nothing else escapes.
C4_TwoOutcomes ==
    \A f \in Facades :
        Done(f.op, f.cls) =>
            \/ ReturnsEntity(f.cls, Construct(f.cls, call.arg, founded_year_le))
            \/ RaisesPrefixed(f.prefix, Construct(f.cls, call.arg, founded_year_le))

\* validate_deal_memo has turned a TypeError, raised for an input that is no
\* mapping, into its ValueError
C4_Witness ==
    /\ Done("validate_deal_memo", "DealMemo")
    /\ call.arg.t # "map"
    /\ ret.kind = "raise" /\ ret.exc.cls = "ValueError"
    /\ Head(ret.exc.args) = "Deal memo validation failed: "

\* the rules of which the input violates exactly one, each with its text
OneRuleViolated ==
    IF call.cls = "AnalysisWeightings" /\ Numbers(WeightNames)
    THEN IF WeightsInRange /\ ~WithinTolerance(GivenTotal) THEN {SumMessage} ELSE {}
    ELSE IF call.cls = "RevenueProjection" /\ Numbers(Years)
    THEN IF \E k \in Years : Given(k) < 0 THEN {}
         ELSE IF Given("year3") < Given("year1") /\ Given("year5") >= Given("year3")
         THEN {Year3Message}
         ELSE IF Given("year3") >= Given("year1") /\ Given("year5") < Given("year3")
         THEN {Year5Message}
         ELSE {}
    ELSE {}

\* C5: get_validation_errors never raises; it returns the empty list exactly when
\* construction succeeds, and otherwise a non-empty list of records that each
\* carry a message; for an input violating exactly one rule the messages include
\* the rule's text.
C5_NeverRaises ==
    (call.op = "get_validation_errors" /\ ret # Pending) =>
        /\ ret.kind = "return"
        /\ ret.value = <<>> <=> Construct(call.cls, call.arg, founded_year_le).kind = "return"
        /\ \A i \in 1..Len(ret.value) : "msg" \in DOMAIN ret.value[i]
        /\ \A text \in OneRuleViolated :
              \E i \in 1..Len(ret.value) : ret.value[i].msg = text

\* get_validation_errors has returned one record, with a message, for an input
\* that is no mapping
C5_Witness ==
    /\ call.op = "get_validation_errors" /\ ret # Pending
    /\ call.arg.t # "map"
    /\ ret.kind = "return" /\ Len(ret.value) = 1
    /\ "msg" \in DOMAIN ret.value[1]

\* C6: whatever the client does with an entity it holds, assignments to its fields
\* included, the entity's declared invariants hold: every weight is a number in
\* [0, 100] and the weights sum to 100 within 0.01.
C6_NeverInvalid ==
    obj # Null =>
        /\ \A k \in WeightNames :
              obj.m[k].t = "num" /\ 0 <= obj.m[k].n /\ obj.m[k].n <= U(100)
        /\ WithinTolerance(obj.m["market_opportunity"].n + obj.m["team"].n
                           + obj.m["traction"].n + obj.m["product"].n
                           + obj.m["competitive_position"].n)

\* C7: a call made in year Y accepts a profile, valid in everything else, iff
\* 1900 <= founded_year <= Y, Y being the year of the clock at the call.
C7_YearOfTheCall ==
    (/\ Done("validate_company_profile", "CompanyProfile")
     /\ call.arg.t = "map"
     /\ \E year \in FoundedYears : call.arg.m = [ValidCompanyProfile EXCEPT !.founded_year = year]
     /\ call.arg.m.founded_year.t = "num"
     /\ call.arg.m.founded_year.n % Scale = 0) =>
        (ret.kind = "return" <=>
            /\ U(1900) <= call.arg.m.founded_year.n
            /\ call.arg.m.founded_year.n <= U(call.year))

\* the exact sum of the values given under keys
RECURSIVE Total(_, _)
Total(m, keys) ==
    IF keys = {} THEN 0
    ELSE LET key == CHOOSE k \in keys : TRUE
         IN  m[key].n + Total(m, keys \ {key})
\* the sum of their absolute values
RECURSIVE Magnitude(_, _)
Magnitude(m, keys) ==
    IF keys = {} THEN 0
    ELSE LET key == CHOOSE k \in keys : TRUE
         IN  Abs(m[key].n) + Magnitude(m, keys \ {key})
GivenSum == Total(call.arg.m, DOMAIN call.arg.m)

\* floats have exponents <= 0 here: x = x.m / 2^(-x.e)
\* the least exponent among the floats of out
LeastExponent(out) ==
    CHOOSE e \in {out[k].e : k \in DOMAIN out} : \A k \in DOMAIN out : e <= out[k].e
\* the exact sum of the floats of out, in units of 2^e
RECURSIVE FloatTotal(_, _, _)
FloatTotal(out, keys, e) ==
    IF keys = {} THEN 0
    ELSE LET key == CHOOSE k \in keys : TRUE
         IN  out[key].m * Pow2(out[key].e - e) + FloatTotal(out, keys \ {key}, e)
\* the distance of the sum of the floats of out from 100, in units of 2^e
FromHundred(out, e) == Abs(FloatTotal(out, DOMAIN out, e) - 100 * Pow2(-e))
\* d * 2^k <= bound
ScaledLeq(d, k, bound) == IF k >= 0 THEN d * Pow2(k) <= bound ELSE d <= bound * Pow2(-k)

\* x = value * 100 / total
ExactlyScaled(x, value, total) == x.m * total = 100 * value * Pow2(-x.e)
\* |x - value * 100 / total| <= 3 * 2^-Precision * |value * 100 / total|: the
\* division and the multiplication each round once
NearlyScaled(x, value, total) ==
    ScaledLeq(Abs(x.m * total - 100 * value * Pow2(-x.e)), Precision + x.e, 300 * Abs(value))

\* C8 as stated: when the values sum to S # 0 the result has the same keys, each
\* value is exactly input * 100 / S, and the values sum to exactly 100.
C8_ExactlyHundred ==
    (Done("normalize_weightings", "") /\ GivenSum # 0) =>
        /\ ret.kind = "return"
        /\ DOMAIN ret.value = DOMAIN call.arg.m
        /\ \A k \in DOMAIN ret.value : ExactlyScaled(ret.value[k], Given(k), GivenSum)
        /\ FromHundred(ret.value, LeastExponent(ret.value)) = 0

\* C8 amended: when the values sum to S # 0, negative values included, the
\* result has the same keys; each value is the float (input / S) * 100, which is
\* input * 100 / S up to the rounding of the division and of the multiplication;
\* the values sum to 100 up to the rounding accumulated over the values, and to
\* within 0.01 of 100 when no input is negative.
C8_Proportional ==
    (Done("normalize_weightings", "") /\ GivenSum # 0) =>
        /\ ret.kind = "return"
        /\ DOMAIN ret.value = DOMAIN call.arg.m
        /\ \A k \in DOMAIN ret.value :
              ret.value[k].t = "float" /\ NearlyScaled(ret.value[k], Given(k), GivenSum)
        /\ ScaledLeq(FromHundred(ret.value, LeastExponent(ret.value)) * Abs(GivenSum),
                     Precision + LeastExponent(ret.value),
                     300 * Magnitude(call.arg.m, DOMAIN call.arg.m))
        /\ (\A k \in DOMAIN call.arg.m : Given(k) >= 0) =>
              100 * FromHundred(ret.value, LeastExponent(ret.value))
                  <= Pow2(-LeastExponent(ret.value))

\* a mapping with a negative value has been normalised, and the values of the
\* result do not sum to 100
C8_Witness ==
    /\ Done("normalize_weightings", "") /\ GivenSum # 0
    /\ \E k \in DOMAIN call.arg.m : Given(k) < 0
    /\ ret.kind = "return"
    /\ FromHundred(ret.value, LeastExponent(ret.value)) # 0

\* C9: normalize_weightings raises ValueError("All weightings cannot be zero")
\* iff the input values sum to zero (all zero, none at all, or cancelling), and
\* otherwise returns a float for every key: nothing is divided by zero.
C9_ZeroSum ==
    Done("normalize_weightings", "") =>
        IF GivenSum = 0
        THEN /\ ret.kind = "raise"
             /\ ret.exc.cls = "ValueError"
             /\ str(ret.exc) = <<"All weightings cannot be zero">>
        ELSE /\ ret.kind = "return"
             /\ \A k \in DOMAIN call.arg.m : ret.value[k].t = "float"

\* positive and negative values that cancel have been refused
C9_Witness ==
    /\ Done("normalize_weightings", "")
    /\ \E k \in DOMAIN call.arg.m : Given(k) > 0
    /\ \E k \in DOMAIN call.arg.m : Given(k) < 0
    /\ GivenSum = 0
    /\ ret.kind = "raise"

DistributionNames ==
    {"min", "max", "median", "p25", "p75", "p90", "mean", "std_dev", "sample_size"}
\* the rules of a distribution given as the mapping d
Distributed(d) ==
    /\ d["max"].n >= d["min"].n
    /\ d["min"].n <= d["median"].n /\ d["median"].n <= d["max"].n
    /\ d["sample_size"].n >= U(1)

\* C10: a MetricDistribution of nine numbers (sample_size whole) is constructed
\* iff max >= min, min <= median <= max and sample_size >= 1, whatever p25, p75,
\* p90, mean and std_dev are; a BenchmarkData with a distribution among its
\* metrics that breaks these rules is refused.
C10_Distribution ==
    /\ (/\ Done("construct", "MetricDistribution")
        /\ Numbers(DistributionNames)
        /\ Given("sample_size") % Scale = 0) =>
            (ret.kind = "return" <=> Distributed(call.arg.m))
    /\ (/\ Done("construct", "BenchmarkData")
        /\ call.arg.t = "map"
        /\ call.arg.m.metrics.t = "map"
        /\ \E k \in DOMAIN call.arg.m.metrics.m :
              ~Distributed(call.arg.m.metrics.m[k].m)) =>
            ret.kind = "raise"

\* a distribution whose p25 is below its min and whose p75 is above its max has
\* been constructed
C10_Witness ==
    /\ Done("construct", "MetricDistribution") /\ Numbers(DistributionNames)
    /\ Given("p25") < Given("min") /\ Given("p75") > Given("max")
    /\ Given("p90") < Given("p75") /\ Given("std_dev") < 0
    /\ ret.kind = "return"

\* C11: a TimeRange of two datetimes is constructed iff end_date >= start_date,
\* equal dates included; a BenchmarkData whose time_range ends before it starts
\* is refused.
C11_TimeRange ==
    /\ (/\ Done("construct", "TimeRange")
        /\ call.arg.t = "map"
        /\ {"start_date", "end_date"} \subseteq DOMAIN call.arg.m
        /\ \A k \in {"start_date", "end_date"} : call.arg.m[k].t = "datetime") =>
            (ret.kind = "return" <=> call.arg.m.end_date.ts >= call.arg.m.start_date.ts)
    /\ (/\ Done("construct", "BenchmarkData")
        /\ call.arg.t = "map" /\ "time_range" \in DOMAIN call.arg.m
        /\ call.arg.m.time_range.m.end_date.ts < call.arg.m.time_range.m.start_date.ts) =>
            ret.kind = "raise"

\* a TimeRange that ends when it starts has been constructed
C11_Witness ==
    /\ Done("construct", "TimeRange")
    /\ call.arg = Map([start_date |-> Datetime(2), end_date |-> Datetime(2)])
    /\ ret.kind = "return"

\* the valid deal memo with these three nested values
Memo(score, year3, weight) ==
    Map([ValidDealMemo EXCEPT !.aegis_deal_memo = Map([ValidAegisDealMemo EXCEPT
            !.summary = Map(With(ValidSummary, "signal_score", score)),
            !.growth_potential =
                Map(With(ValidGrowthPotential, "revenue_projection",
                         Map(With(ValidProjection, "year3", year3)))),
            !.analysis_weightings = Map(With(ValidWeightings, "market_opportunity", weight))])])
\* the rules of the three nested sections the memos differ in
NestedRules(score, year3, weight) ==
    /\ score.t = "num" /\ 0 <= score.n /\ score.n <= U(100)
    /\ ValidProjection.year1.n <= year3.n /\ year3.n <= ValidProjection.year5.n
    /\ 0 <= weight.n /\ weight.n <= U(100)
    /\ WithinTolerance(weight.n + U(25) + U(20) + U(15) + U(15))

\* the attributes of value are what supplied gives for them; with parsed, the
\* text of a UUID may come back as the UUID it denotes
RECURSIVE ReturnsSupplied(_, _, _)
ReturnsSupplied(value, supplied, parsed) ==
    CASE supplied.t = "map" /\ value.t \in {"model", "map"} ->
            \A k \in DOMAIN supplied.m :
                k \in DOMAIN value.m /\ ReturnsSupplied(value.m[k], supplied.m[k], parsed)
      [] supplied.t = "list" /\ value.t = "list" ->
            /\ Len(value.items) = Len(supplied.items)
            /\ \A i \in 1..Len(supplied.items) :
                  ReturnsSupplied(value.items[i], supplied.items[i], parsed)
      [] OTHER ->
            \/ value = supplied
            \/ parsed /\ supplied.t = "str" /\ value = Uuid(supplied.s)

MemoScores == {Num(U(85)), Num(U(150)), Str("abc")}
MemoYears == {Num(U(10)), Num(U(1)), Num(U(60))}
MemoWeights == {Num(U(25)), Num(U(50)), Num(U(-25))}

AtBoundary(b, x) == call.cls = b.cls /\ call.arg = Boundary(b, x)
\* the call was refused for the one error, of this type, at field
RefusedAt(field, type) ==
    /\ ret.kind = "raise" /\ ret.exc.cls = "ValidationError"
    /\ Len(ret.exc.errors) = 1
    /\ ret.exc.errors[1].loc = <<field>>
    /\ ret.exc.errors[1].type = type

\* C13: for every numeric field declared with bounds [lo, hi], an otherwise valid
\* entity is accepted with the field at lo and at hi, and refused, for that
\* field, with the field one step below lo or one step above hi.
C13_RangeBoundary ==
    (call.op = "construct" /\ ret # Pending) =>
        \A b \in BoundedFields :
            /\ (AtBoundary(b, b.lo) \/ AtBoundary(b, b.hi)) =>
                  ret.kind = "return" /\ ret.value.m[b.field] \in {Num(b.lo), Num(b.hi)}
            /\ AtBoundary(b, b.lo - b.step) => RefusedAt(b.field, "greater_than_equal")
            /\ AtBoundary(b, b.hi + b.step) => RefusedAt(b.field, "less_than_equal")

\* a churn_rate of exactly 100 has been accepted
C13_Witness ==
    /\ Done("construct", "TractionMetrics")
    /\ call.arg = Map(With(ValidEntity("TractionMetrics"), "churn_rate", Num(U(100))))
    /\ ret.kind = "return"

\* the call's argument is a valid document but, possibly, for the strings it
\* lists under f's field
ListsItems(f) ==
    /\ call.cls = f.cls
    /\ call.arg.t = "map" /\ f.field \in DOMAIN call.arg.m
    /\ call.arg.m[f.field].t = "list"
    /\ \A i \in 1..Len(call.arg.m[f.field].items) : call.arg.m[f.field].items[i].t = "str"
    /\ call.arg.m = With(ValidEntity(f.cls), f.field, call.arg.m[f.field])
GivenItems(f) == call.arg.m[f.field].items
ItemsInRange(f) ==
    \A i \in 1..Len(GivenItems(f)) :
        f.lo <= Len(GivenItems(f)[i].s) /\ Len(GivenItems(f)[i].s) <= f.hi

\* C14 as stated: a list with an item, at any position, whose length is outside
\* the field's range is refused, and a list whose items are all within range is
\* accepted.
C14_EveryList ==
    (call.op = "construct" /\ ret # Pending) =>
        \A f \in ItemFields : ListsItems(f) => (ret.kind = "return" <=> ItemsInRange(f))

\* C14 amended: a non-empty list is accepted iff every item's length is within
\* the field's range, a single item outside it, at any position, being refused
\* at that field; the empty list is refused (min_length=1).
C14_NonEmptyList ==
    (call.op = "construct" /\ ret # Pending) =>
        \A f \in ItemFields : ListsItems(f) =>
            IF GivenItems(f) = <<>> THEN RefusedAt(f.field, "too_short")
            ELSE IF ItemsInRange(f) THEN ret.kind = "return"
            ELSE RefusedAt(f.field, "value_error")

\* a list whose last item alone is too long has been refused
C14_Witness ==
    /\ call.op = "construct" /\ ret # Pending
    /\ \E f \in ItemFields :
          /\ ListsItems(f)
          /\ Len(GivenItems(f)) = MaxItems
          /\ \A i \in 1..MaxItems :
                Len(GivenItems(f)[i].s) = IF i = MaxItems THEN f.hi + 1 ELSE f.lo
    /\ ret.kind = "raise"

\* the call's argument is a valid document but, possibly, for the value it gives
\* f's field
GivesEnum(f) ==
    /\ call.cls = f.cls
    /\ call.arg.t = "map" /\ f.field \in DOMAIN call.arg.m
    /\ call.arg.m = With(ValidEntity(f.cls), f.field, call.arg.m[f.field])
OptionalEnums == {"FundingMetrics", "BenchmarkData"}

\* C15: an enumerated field given a value of its declared set is accepted and
\* holds that member; given any other value construction fails at that field:
\* nothing is coerced or replaced by a default.  (None on an Optional field is
\* no value: the field stays None.)
C15_ClosedSets ==
    (call.op = "construct" /\ ret # Pending) =>
        \A f \in EnumFields : GivesEnum(f) =>
            LET v == call.arg.m[f.field]
            IN  IF v.t = "str" /\ v.s \in Members(f.enum)
                THEN ret.kind = "return" /\ ret.value.m[f.field] = Str(v.s)
                ELSE IF v = Null /\ f.cls \in OptionalEnums
                THEN ret.kind = "return" /\ ret.value.m[f.field] = Null
                ELSE RefusedAt(f.field, IF f.enum \in {"impact", "likelihood", "category"}
                                        THEN "literal_error" ELSE "enum")

\* a severity of "high", which is a member of impact and likelihood but not of
\* RiskSeverity (HIGH), has been refused
C15_Witness ==
    /\ Done("construct", "RiskFlag")
    /\ call.arg = Map(With(ValidRiskFlag, "severity", Str("high")))
    /\ RefusedAt("severity", "enum")

\* v gives exactly the fields of f's model, and so does every model in it
RECURSIVE ExactFields(_, _)
ExactFields(f, v) ==
    CASE f.type = "model" /\ v.t = "map" ->
            /\ DOMAIN v.m = {Fields(f.of, founded_year_le)[i].name :
                                i \in 1..Len(Fields(f.of, founded_year_le))}
            /\ \A i \in 1..Len(Fields(f.of, founded_year_le)) :
                  ExactFields(Fields(f.of, founded_year_le)[i],
                              v.m[Fields(f.of, founded_year_le)[i].name])
      [] f.type = "list[model]" /\ v.t = "list" ->
            \A i \in 1..Len(v.items) : ExactFields(ItemField(f), v.items[i])
      [] f.type = "dict[model]" /\ v.t = "map" ->
            \A k \in DOMAIN v.m : ExactFields(ItemField(f), v.m[k])
      [] OTHER -> TRUE

\* every value in v is of the type its field declares
RECURSIVE OfFieldType(_, _)
OfFieldType(f, v) ==
    CASE f.optional /\ v = Null -> TRUE
      [] f.type = "model" ->
            /\ v.t = "map"
            /\ \A i \in 1..Len(Fields(f.of, founded_year_le)) :
                  Fields(f.of, founded_year_le)[i].name \in DOMAIN v.m =>
                      OfFieldType(Fields(f.of, founded_year_le)[i],
                                  v.m[Fields(f.of, founded_year_le)[i].name])
      [] f.type \in {"list[str]", "list[float]", "list[model]"} ->
            v.t = "list" /\ \A i \in 1..Len(v.items) : OfFieldType(ItemField(f), v.items[i])
      [] f.type = "dict[model]" ->
            v.t = "map" /\ \A k \in DOMAIN v.m : OfFieldType(ItemField(f), v.m[k])
      [] f.type \in {"float", "int"} -> v.t = "num"
      [] f.type \in {"enum", "literal"} -> v.t = "str"
      [] OTHER -> v.t = f.type

TheModel == Of(FieldInfo("", "model"), call.cls)

Violations ==
    IF call.op = "get_validation_errors" THEN ret.value
    ELSE IF ret.kind = "raise" THEN ret.exc.errors
    ELSE <<>>
\* each violation's path with what it says: a validator's own message, or the
\* type of the constraint
Entries(errors) ==
    {<<errors[i].loc, IF errors[i].type = "value_error" THEN errors[i].msg
                      ELSE errors[i].type>> : i \in 1..Len(errors)}

\* what distribution d, the one of metric k, violates
NestedDistribution(k, d) ==
    IF d.sample_size.n < U(1)
    THEN {<< <<"metrics", k, "sample_size">>, "greater_than_equal" >>}
    ELSE IF d["max"].n < d["min"].n
    THEN {<< <<"metrics", k>>, "max must be greater than or equal to min" >>}
    ELSE IF d.median.n < d["min"].n \/ d.median.n > d["max"].n
    THEN {<< <<"metrics", k>>, "median must be between min and max" >>}
    ELSE {}
\* what the benchmark data b violates, in itself and in what it encloses
BenchmarkViolations(b) ==
    UNION {NestedDistribution(k, b.metrics.m[k].m) : k \in DOMAIN b.metrics.m}
    \cup (IF b.time_range.m.end_date.ts < b.time_range.m.start_date.ts
          THEN {<< <<"time_range">>, "end_date must be after start_date" >>} ELSE {})
    \cup (IF b.sample_size.n < U(1)
          THEN {<< <<"sample_size">>, "greater_than_equal" >>} ELSE {})
    \cup (IF b.confidence.n > U(1)
          THEN {<< <<"confidence">>, "less_than_equal" >>} ELSE {})

\* what the memo with these three nested values violates
MemoViolations(score, year3, weight) ==
    (IF score.t # "num"
     THEN {<< <<"aegis_deal_memo", "summary", "signal_score">>, "float_parsing" >>}
     ELSE IF score.n > U(100)
     THEN {<< <<"aegis_deal_memo", "summary", "signal_score">>, "less_than_equal" >>}
     ELSE {})
    \cup (IF year3.n < ValidProjection.year1.n
          THEN {<< <<"aegis_deal_memo", "growth_potential", "revenue_projection">>,
                   Year3Message >>}
          ELSE IF ValidProjection.year5.n < year3.n
          THEN {<< <<"aegis_deal_memo", "growth_potential", "revenue_projection">>,
                   Year5Message >>}
          ELSE {})
    \cup (IF weight.n < 0
          THEN {<< <<"aegis_deal_memo", "analysis_weightings", "market_opportunity">>,
                   "greater_than_equal" >>}
          ELSE IF ~WithinTolerance(weight.n + U(25) + U(20) + U(15) + U(15))
          THEN {<< <<"aegis_deal_memo", "analysis_weightings">>, SumMessage >>}
          ELSE {})

\* the metrics whose second key hire has an empty name, and a negative
\* projected ARR
FaultyMetrics ==
    Map([ValidInvestmentMetrics EXCEPT
            !.revenue = Map(With(With(@.m, "arr", Num(U(1000000))), "projected_arr",
                                 Lst(<<Num(U(1)), Num(U(-5)), Num(U(2))>>))),
            !.team = Map(With(With(@.m, "size", Num(U(25))), "key_hires",
                              Lst(<<Map(ValidTeamMember),
                                    Map(With(ValidTeamMember, "name", Str("")))>>)))])

\* C17: a violation in a nested entity makes the enclosing construction fail,
\* and is reported under the path to the nested field (or, for a cross-field
\* rule, to the nested entity) with the nested rule's own message; the
\* enclosing field's name alone, with a generic message, is never reported.
C17_NestedPaths ==
    /\ (call.cls = "BenchmarkData" /\ call.op \in {"construct", "get_validation_errors"}
            /\ ret # Pending)
          => /\ Entries(Violations) = BenchmarkViolations(call.arg.m)
             /\ call.op = "construct" =>
                   (ret.kind = "raise" <=> BenchmarkViolations(call.arg.m) # {})
    /\ Done("get_validation_errors", "DealMemo")
          => \A score \in MemoScores, year3 \in MemoYears, weight \in MemoWeights :
                call.arg = Memo(score, year3, weight) =>
                    Entries(Violations) = MemoViolations(score, year3, weight)
    /\ (Done("get_validation_errors", "InvestmentMetrics") /\ call.arg = FaultyMetrics)
          => Entries(Violations) =
                {<< <<"revenue", "projected_arr">>,
                    "All projected ARR values must be non-negative" >>,
                 << <<"team", "key_hires", "1", "name">>, "string_too_short" >>}

\* BenchmarkData has been refused for a distribution of its metrics whose max is
\* below its min, reported at the metric with the distribution's message
C17_Witness ==
    /\ Done("construct", "BenchmarkData")
    /\ ret.kind = "raise"
    /\ << <<"metrics", "arr">>, "max must be greater than or equal to min" >>
            \in Entries(Violations)

\* what the throwing entry point of class cls does with data
Throwing(cls, data, year_le) ==
    CASE cls = "DealMemo" -> validate_deal_memo(data, year_le)
      [] cls = "CompanyProfile" -> validate_company_profile(data, year_le)
      [] cls = "InvestmentMetrics" -> validate_investment_metrics(data, year_le)

\* C18: on every input the throwing entry point of DealMemo, CompanyProfile and
\* InvestmentMetrics raises iff get_validation_errors for that class and the
\* same input returns a non-empty list, and returns an entity iff the list is
\* empty.
C18_EntryPointsAgree ==
    \A f \in Facades :
        /\ Done(f.op, f.cls) =>
              /\ ret.kind = "raise"
                    <=> get_validation_errors(f.cls, call.arg, founded_year_le).value # <<>>
              /\ (ret.kind = "return" /\ ret.value.t = "model" /\ ret.value.cls = f.cls)
                    <=> get_validation_errors(f.cls, call.arg, founded_year_le).value = <<>>
        /\ Done("get_validation_errors", f.cls) =>
              /\ ret.kind = "return"
              /\ ret.value # <<>>
                    <=> Throwing(f.cls, call.arg, founded_year_le).kind = "raise"
              /\ ret.value = <<>>
                    <=> Throwing(f.cls, call.arg, founded_year_le).kind = "return"

\* validate_investment_metrics has raised for None, which is no mapping, the
\* input for which get_validation_errors has no errors() to list
C18_Witness ==
    /\ Done("validate_investment_metrics", "InvestmentMetrics")
    /\ call.arg = Null
    /\ ret.kind = "raise"
    /\ Len(get_validation_errors("InvestmentMetrics", call.arg, founded_year_le).value) = 1

\* the classes with a cross-field invariant
CrossFieldClasses == {"AnalysisWeightings", "RevenueProjection", "MetricDistribution",
                      "TimeRange"}
\* a violation of a field's own constraint is located at the field, one of the
\* cross-field invariant at the entity itself
PerField(error) == Len(error.loc) = 1 /\ error.type # "value_error"
CrossField(error) == error.loc = <<>> /\ error.type = "value_error"

\* C19: in AnalysisWeightings, RevenueProjection, MetricDistribution and
\* TimeRange a failed construction reports either one or more per-field
\* violations or exactly one cross-field violation, never both kinds: weights
\* with one value above 100 never yield the sum message, and year3 < year1
\* together with year5 < year3 yields the year3 message only.
C19_FieldsGateInvariant ==
    \A cls \in CrossFieldClasses :
        (Done("construct", cls) /\ ret.kind = "raise" /\ ret.exc.cls = "ValidationError") =>
            /\ ret.exc.errors # <<>>
            /\ \/ \A i \in 1..Len(ret.exc.errors) : PerField(ret.exc.errors[i])
               \/ Len(ret.exc.errors) = 1 /\ CrossField(ret.exc.errors[1])
            /\ (cls = "AnalysisWeightings" /\ Numbers(WeightNames)
                    /\ \E k \in WeightNames : Given(k) > U(100))
                  => SumMessage \notin Messages(ret.exc.errors)
            /\ (cls = "RevenueProjection" /\ Numbers(Years)
                    /\ \A k \in Years : Given(k) >= 0
                    /\ Given("year3") < Given("year1") /\ Given("year5") < Given("year3"))
                  => [i \in 1..Len(ret.exc.errors) |-> ret.exc.errors[i].msg]
                        = <<Year3Message>>

\* a projection that breaks both rules of the progression, no year being
\* negative, has been refused
C19_Witness ==
    /\ Done("construct", "RevenueProjection")
    /\ Numbers(Years)
    /\ Given("year1") = U(2) /\ Given("year3") = U(1) /\ Given("year5") = 0
    /\ ret.kind = "raise"

\* the float x is in [0, 100]
InRange(x) == x.m >= 0 /\ ScaledLeq(x.m, x.e, 100)

\* C20: a mapping over exactly the five names with all values >= 0 and a
\* positive sum is normalised to values in [0, 100] that AnalysisWeightings
\* accepts; with a negative value and a non-zero sum the normaliser still
\* returns, and when its result has a value outside [0, 100] AnalysisWeightings
\* rejects it.
C20_NormalizedIsValid ==
    (Done("normalized", "AnalysisWeightings") /\ DOMAIN call.arg.m = WeightNames) =>
        /\ ((\A k \in WeightNames : Given(k) >= 0) /\ GivenSum > 0) =>
              /\ obj.kind = "return"
              /\ \A k \in WeightNames : InRange(obj.value[k])
              /\ ret.kind = "return"
              /\ \A k \in WeightNames : ret.value.m[k] = obj.value[k]
        /\ ((\E k \in WeightNames : Given(k) < 0) /\ GivenSum # 0) =>
              /\ obj.kind = "return"
              /\ (\E k \in WeightNames : ~InRange(obj.value[k])) =>
                    /\ ret.kind = "raise" /\ ret.exc.cls = "ValidationError"
                    /\ \A i \in 1..Len(ret.exc.errors) :
                          ret.exc.errors[i].type \in {"greater_than_equal", "less_than_equal"}

\* five weights, one of them negative, have been normalised to values of which
\* one is outside [0, 100], and AnalysisWeightings has refused them
C20_Witness ==
    /\ Done("normalized", "AnalysisWeightings") /\ DOMAIN call.arg.m = WeightNames
    /\ \E k \in WeightNames : Given(k) < 0
    /\ obj.kind = "return"
    /\ \E k \in WeightNames : ~InRange(obj.value[k])
    /\ ret.kind = "raise"

\* the defaults of the five weights
WeightDefaults ==
    [market_opportunity |-> U(25), team |-> U(25), traction |-> U(20), product |-> U(15),
     competitive_position |-> U(15)]
\* the argument gives numbers for some of the five weights and nothing else
SomeWeights ==
    /\ call.arg.t = "map" /\ DOMAIN call.arg.m \subseteq WeightNames
    /\ \A k \in DOMAIN call.arg.m : call.arg.m[k].t = "num"
\* the weight of k in the completed five-tuple
Completed(k) == IF k \in DOMAIN call.arg.m THEN Given(k) ELSE WeightDefaults[k]
CompletedTotal ==
    Completed("market_opportunity") + Completed("team") + Completed("traction")
    + Completed("product") + Completed("competitive_position")
\* the entity holds the completed five-tuple
HoldsCompleted == \A k \in WeightNames : ret.value.m[k] = Num(Completed(k))

\* the argument is the valid document of its class but for field k, left out
LeavesOut(k) ==
    /\ call.cls \notin {"TimeRange", "AnalysisWeightings"}
    /\ k \in DOMAIN ValidEntity(call.cls)
    /\ call.arg = Map(Without(ValidEntity(call.cls), k))
\* the declaration of field k of the call's class
Declared(k) ==
    Fields(call.cls, founded_year_le)[
        CHOOSE i \in 1..Len(Fields(call.cls, founded_year_le)) :
            Fields(call.cls, founded_year_le)[i].name = k]
\* the fields the source declares without a default, for some of the classes
RequiredOf(cls) ==
    CASE cls = "TeamMember" -> {"name", "role"}
      [] cls = "DealMemoSummary" ->
            {"company_name", "one_liner", "sector", "stage", "signal_score",
             "recommendation", "confidence_level", "last_updated"}
      [] cls = "RiskAssessment" ->
            {"overall_risk_score", "high_priority_risks", "medium_priority_risks",
             "low_priority_risks", "risk_mitigation_plan"}
      [] OTHER -> {}

\* C21 as stated: omitted weights take their defaults and a subset of weights
\* is accepted iff the completed five-tuple sums to 100 within 0.01; a field
\* declared without a default is required.
C21_AnySubset ==
    /\ (Done("construct", "AnalysisWeightings") /\ SomeWeights) =>
          /\ ret.kind = "return" <=> WithinTolerance(CompletedTotal)
          /\ ret.kind = "return" => HoldsCompleted
    /\ (call.op = "construct" /\ ret # Pending
            /\ call.cls \notin {"TimeRange", "AnalysisWeightings"}) =>
          \A k \in DOMAIN ValidEntity(call.cls) :
              (LeavesOut(k) /\ Declared(k).required) => RefusedAt(k, "missing")

\* C21 amended: omitted weights take their defaults, and a subset of weights is
\* accepted iff every supplied weight is in [0, 100] and the completed
\* five-tuple sums to 100 within 0.01 (so the empty input is accepted); in the
\* other entities leaving out a field declared without a default makes
\* construction fail at that field, and leaving out a field with a default
\* does not: the field takes the default.
C21_SubsetInRange ==
    /\ (Done("construct", "AnalysisWeightings") /\ SomeWeights) =>
          /\ ret.kind = "return"
                <=> /\ \A k \in DOMAIN call.arg.m : 0 <= Given(k) /\ Given(k) <= U(100)
                    /\ WithinTolerance(CompletedTotal)
          /\ ret.kind = "return" => HoldsCompleted
          /\ DOMAIN call.arg.m = {} => ret.kind = "return"
    /\ (call.op = "construct" /\ ret # Pending
            /\ call.cls \notin {"TimeRange", "AnalysisWeightings"}) =>
          \A k \in DOMAIN ValidEntity(call.cls) : LeavesOut(k) =>
              /\ k \in RequiredOf(call.cls) => RefusedAt(k, "missing")
              /\ (RequiredOf(call.cls) # {} /\ k \notin RequiredOf(call.cls)) =>
                    ret.kind = "return" /\ ret.value.m[k] = Null
              /\ IF Declared(k).required THEN RefusedAt(k, "missing")
                 ELSE ret.kind = "return" /\ ret.value.m[k] = Declared(k).default

\* two weights have been supplied, 25 and two steps above 25, and the three
\* defaults completed them to a sum that is not within 0.01 of 100: refused
C21_Witness ==
    /\ Done("construct", "AnalysisWeightings") /\ SomeWeights
    /\ Cardinality(DOMAIN call.arg.m) = 2
    /\ \A k \in DOMAIN call.arg.m : 0 <= Given(k) /\ Given(k) <= U(100)
    /\ ~WithinTolerance(CompletedTotal)
    /\ Reports(SumMessage)

====
